---- MODULE Spec2Model ----
(***************************************************************************)
(* Model of the transport core of the llm-cost-ops Python SDK:             *)
(*   - exceptions.py    : the typed error hierarchy and                    *)
(*                        create_error_from_response (the error mapper)    *)
(*   - http_client.py   : RateLimiter (token bucket) and the               *)
(*                        SyncHTTPClient / AsyncHTTPClient request()       *)
(*                        with its tenacity retry wrapper                  *)
(*                                                                         *)
(* The specifications share the variables:                                 *)
(*   Spec     the transport: request() with its retry wrapper, response    *)
(*            handling and error mapping (default config: no rate limit)   *)
(*   SpecMap  create_error_from_response applied to bounded inputs         *)
(*   SpecRL   the RateLimiter under sequential use and a monotonic clock;  *)
(*   SpecRLFair is SpecRL with the fairness of a running thread            *)
(*   SpecAsync, SpecRes, SpecCfg, SpecPair, SpecCtx                        *)
(*            the async transport, the resource methods, the configuration *)
(*            objects, the sync/async pair and the context managers        *)
(*   SpecThreads, SpecReq, SpecFp, SpecClock, SpecBackoff                  *)
(*            the limiter under two threads, inside request(), in rounded  *)
(*            arithmetic and under a clock set back; the retry waits       *)
(*   SpecFacade, SpecUrl                                                   *)
(*            the objects a facade client owns; the URL of a request       *)
(*                                                                         *)
(* Python values are tagged records [t, v]; time is counted in ticks of    *)
(* the limiter's polling interval (0.1 s) and the token count is kept      *)
(* scaled by time_window so that the refill is exact integer arithmetic.   *)
(***************************************************************************)
EXTENDS Integers, Sequences, FiniteSets, TLC

VARIABLES
    \* --- create_error_from_response applied as a pure function (SpecMap)
    m_status,        \* status_code argument
    m_body,          \* response_body argument
    m_request_id,    \* request_id argument
    m_result,        \* NotApplied, or the call's result (returned / raised)
    \* --- transport (Spec)
    max_retries,     \* config.retry.max_retries
    timeout,         \* config.timeout
    pc,              \* "idle" | "attempt" | "wait" | "done"
    attempt_number,  \* HTTP attempts made by the current request()
    attempt_log,     \* per failed attempt that the wrapper may retry: what httpx
                     \* raised (raw) and what _make_request raised for it (raised)
    response,        \* the httpx response of the attempt that completed
    outcome,         \* what request() returned or raised
    \* --- RateLimiter (SpecRL); times in ticks of the 0.1 s polling interval
    rl_max_requests, \* self.max_requests
    rl_time_window,  \* self.time_window, in ticks
    tokens,          \* self.tokens, scaled: the value held is tokens * time_window
    last_update,     \* self.last_update
    now,             \* what time.time() returns
    rl_pc,           \* "idle" | "loop" (top of acquire's while) | "sleep"
    \* --- history of the limiter, read by the properties only
    acquired,        \* acquire() calls that have returned
    slept,           \* sleeps of the current (or latest) acquire() call
    full_at,         \* clock reading when a refill last left the bucket full
    since_full,      \* acquire() calls returned since then
    empty_at,        \* clock reading when the bucket was left at exactly 0, or -1
    last_wait,       \* at the latest return: time since the bucket was emptied, or -1
    \* --- AsyncHTTPClient.request() calls as tasks of one event loop (SpecAsync)
    task_pc,         \* per task: "idle" | "acquire" | "await_io" | "done"
    running,         \* the task whose code the event loop is executing, or 0
    \* --- resource operations (SpecRes)
    res_op,          \* the operation called last, or "none"
    res_args,        \* its arguments
    res_pc,          \* "idle" | "request" (inside self._client.request) | "done"
    res_outcome,     \* what the operation returned or raised
    res_calls,       \* operations called so far
    req_entered,     \* request() calls the operations have made on the transport
    \* --- configuration objects (SpecCfg)
    environ,         \* os.environ: LLM_COST_OPS_API_KEY and LLM_COST_OPS_BASE_URL
    cfg_args,        \* the arguments of the latest constructor call
    cfg,             \* its result: the object built, or the error raised
    \* --- AsyncHTTPClient.request() next to the synchronous one (SpecPair)
    a_pc,            \* as pc
    a_attempt_number,\* as attempt_number
    a_attempt_log,   \* as attempt_log
    a_response,      \* as response
    a_outcome,       \* as outcome
    \* --- a client used as a context manager (SpecCtx)
    client_kind,     \* "sync" (CostOpsClient) | "async" (AsyncCostOpsClient)
    scope,           \* "none" | "body" | "finished" | "raised" | "exited"
    resources,       \* the resource objects created so far (lazy properties)
    user_closes,     \* close() calls the caller made on the client itself
    closes,          \* close() calls made on the transport
    pool,            \* the transport's connection pool: "open" | "closed"
    body_exc,        \* what the body of the with block raised, or NoExc
    propagated,      \* what the with statement raised to its caller, or NoExc
    \* --- threads sharing one RateLimiter (SpecThreads)
    th_pc,           \* per thread: "idle" | "refill" | "test" | "dec" | "sleep"
    th_wake,         \* per thread: the time its time.sleep(0.1) returns
    overlapped,      \* a thread has entered acquire() while another was inside
    \* --- _refill in floating point, polled and not (SpecFp)
    fp_max_requests, \* max_requests
    fp_time_window,  \* time_window, in seconds
    fp_now,          \* the clock, in units of 1/Unit second
    fp_tokens,       \* tokens of the limiter that is polled, in units of 1/Unit
    fp_last_update,  \* its last_update
    fp_tokens0,      \* tokens of the same limiter as it was at t0, left alone
    fp_last_update0, \* t0
    fp_polls,        \* _refill() calls made on the polled limiter since t0
    \* --- the wall clock read by the limiter (SpecClock)
    clock_backs,     \* times the clock has been set back
    \* --- the waits of the retry wrapper (SpecBackoff)
    backoff_factor,  \* config.retry.backoff_factor, in seconds
    max_backoff,     \* config.retry.max_backoff, in seconds
    waits,           \* the waits slept so far by the current request()
    \* --- the objects of one facade client (SpecFacade)
    fac_kind,        \* "sync" (CostOpsClient) | "async" (AsyncCostOpsClient)
    fac_http_client, \* self._http_client: the id of the transport object
    fac_resources,   \* self._usage, _costs, ...: the id of each resource, 0 for None
    obj_client,      \* per resource object id: the transport id in its _client
    transports,      \* transport objects constructed so far
    next_id,         \* the id the next object constructed gets
    returned,        \* what the last property access returned: name and object id
    \* --- the URL a transport requests (SpecUrl)
    url_base,        \* config.base_url, parsed: netloc and path
    url_called,      \* _get_url has been called
    url_path,        \* the path argument of the last _get_url call
    url_result       \* the URL it returned, parsed: netloc and path

mapVars == <<m_status, m_body, m_request_id, m_result>>
httpVars == <<max_retries, timeout, pc, attempt_number, attempt_log, response, outcome>>
rlVars == <<rl_max_requests, rl_time_window, tokens, last_update, now, rl_pc,
            acquired, slept, full_at, since_full, empty_at, last_wait>>
asyncVars == <<task_pc, running>>
resVars == <<res_op, res_args, res_pc, res_outcome, res_calls, req_entered>>
cfgVars == <<environ, cfg_args, cfg>>
ahttpVars == <<a_pc, a_attempt_number, a_attempt_log, a_response, a_outcome>>
ctxVars == <<client_kind, scope, resources, user_closes, closes, pool, body_exc, propagated>>
thVars == <<th_pc, th_wake, overlapped>>
fpVars == <<fp_max_requests, fp_time_window, fp_now, fp_tokens, fp_last_update,
            fp_tokens0, fp_last_update0, fp_polls>>
clkVars == <<clock_backs>>
boVars == <<backoff_factor, max_backoff, waits>>
facVars == <<fac_kind, fac_http_client, fac_resources, obj_client, transports, next_id,
             returned>>
urlVars == <<url_base, url_called, url_path, url_result>>
moreVars == <<fpVars, clkVars, boVars, facVars, urlVars>>
moreButFp == <<clkVars, boVars, facVars, urlVars>>
moreButClk == <<fpVars, boVars, facVars, urlVars>>
moreButBo == <<fpVars, clkVars, facVars, urlVars>>
moreButFac == <<fpVars, clkVars, boVars, urlVars>>
moreButUrl == <<fpVars, clkVars, boVars, facVars>>
auxVars == <<thVars, moreVars>>
extVars == <<asyncVars, resVars, cfgVars, ahttpVars, ctxVars, auxVars>>
vars == <<mapVars, httpVars, rlVars, extVars>>

----------------------------------------------------------------------------
(* Python values *)

None == [t |-> "None", v |-> 0]
PyStr(s) == [t |-> "str", v |-> s]
PyInt(n) == [t |-> "int", v |-> n]
PyList(n) == [t |-> "list", v |-> n]       \* a list of n elements
PyDict(f) == [t |-> "dict", v |-> f]       \* f: a function from keys to values
NoItems == [k \in {} |-> None]

\* Python truthiness, as `if response_body:` evaluates it.
Truthy(x) ==
    CASE x.t = "None" -> FALSE
      [] x.t = "dict" -> DOMAIN x.v # {}
      [] x.t = "list" -> x.v > 0
      [] x.t = "str" -> x.v # ""
      [] x.t = "int" -> x.v # 0

\* dict.get(key, default)
Get(d, key, default) == IF key \in DOMAIN d.v THEN d.v[key] ELSE default

\* kwargs.get(key, default) on a keyword mapping (a TLA+ function)
KwGet(kw, key, default) == IF key \in DOMAIN kw THEN kw[key] ELSE default

----------------------------------------------------------------------------
(* exceptions.py: the error hierarchy *)

\* The classes each class is an instance of (its MRO, within the model).
Bases(cls) ==
    CASE cls = "APIError" -> {"APIError", "CostOpsError", "Exception"}
      [] cls \in {"AuthenticationError", "AuthorizationError", "ValidationError",
                  "NotFoundError", "RateLimitError", "ServerError"}
            -> {cls, "APIError", "CostOpsError", "Exception"}
      [] cls = "NetworkError" -> {"NetworkError", "CostOpsError", "Exception"}
      [] cls = "TimeoutError" -> {"TimeoutError", "NetworkError", "CostOpsError", "Exception"}
      [] cls \in {"httpx.ConnectTimeout", "httpx.ReadTimeout"}
            -> {cls, "httpx.TimeoutException", "httpx.TransportError", "Exception"}
      [] cls \in {"httpx.ConnectError", "httpx.ReadError"}
            -> {cls, "httpx.NetworkError", "httpx.TransportError", "Exception"}
      [] cls = "httpx.RemoteProtocolError"
            -> {cls, "httpx.ProtocolError", "httpx.TransportError", "Exception"}
      [] OTHER -> {cls, "Exception"}

IsInstance(exc, cls) == cls \in Bases(exc.cls)

\* An exception object: its class and its attributes.
Exc(cls, attrs) == [cls |-> cls, attrs |-> attrs]
HasAttr(exc, name) == name \in DOMAIN exc.attrs
Attr(exc, name) == exc.attrs[name]

\* The result of a call that builds an error: returned it, or raised instead.
Returned(exc) == [ok |-> TRUE, exc |-> exc]
Raised(exc) == [ok |-> FALSE, exc |-> exc]

\* Python raises TypeError when a keyword is passed twice or is unknown,
\* AttributeError when .get is called on a value that has none.
TypeError == Exc("TypeError", [message |-> PyStr("got multiple values for keyword argument")])
AttributeError == Exc("AttributeError", [message |-> PyStr("object has no attribute 'get'")])

APIErrorParams == {"status_code", "response", "request_id"}

\* APIError.__init__(message, status_code=None, response=None, request_id=None),
\* called with the keyword arguments kw.
APIError_init(cls, message, kw, extra) ==
    IF ~(DOMAIN kw \subseteq APIErrorParams)
    THEN Raised(TypeError)
    ELSE Returned(Exc(cls,
            [message |-> message,
             status_code |-> KwGet(kw, "status_code", None),
             response |-> KwGet(kw, "response", None),
             request_id |-> KwGet(kw, "request_id", None)] @@ extra))

\* super().__init__(message, status_code=status_code, **kwargs): the keyword
\* status_code is given explicitly, so kwargs must not carry it again.
super_init(cls, message, status_code, kwargs, extra) ==
    IF "status_code" \in DOMAIN kwargs
    THEN Raised(TypeError)
    ELSE APIError_init(cls, message, [status_code |-> status_code] @@ kwargs, extra)

AuthenticationError(message, kwargs) ==
    super_init("AuthenticationError", message, PyInt(401), kwargs, NoItems)

AuthorizationError(message, kwargs) ==
    super_init("AuthorizationError", message, PyInt(403), kwargs, NoItems)

\* self.errors = errors or {}
ValidationError(message, errors, kwargs) ==
    super_init("ValidationError", message, PyInt(400), kwargs,
               [errors |-> IF Truthy(errors) THEN errors ELSE PyDict(NoItems)])

NotFoundError(message, resource_type, kwargs) ==
    super_init("NotFoundError", message, PyInt(404), kwargs,
               [resource_type |-> resource_type])

\* Mutant: the two rate-limit fields are stored crosswise.
RateLimitError_swapped(message, retry_after, limit, kwargs) ==
    super_init("RateLimitError", message, PyInt(429), kwargs,
               [retry_after |-> limit, limit |-> retry_after])

\* RateLimitError.__init__(message, retry_after=None, limit=None, **kwargs)
RateLimitError(message, retry_after, limit, kwargs) ==
    super_init("RateLimitError", message, PyInt(429), kwargs,
               [retry_after |-> retry_after, limit |-> limit])

\* super().__init__(message, status_code=kwargs.get("status_code", 500), **kwargs)
ServerError(message, kwargs) ==
    super_init("ServerError", message, KwGet(kwargs, "status_code", PyInt(500)),
               kwargs, NoItems)

\* NetworkError(message, cause=None)
NetworkError(message, cause) ==
    Exc("NetworkError", [message |-> message, cause |-> cause])

\* TimeoutError(message, timeout=None): NetworkError.__init__(message) leaves cause None
SDKTimeoutError(message, tmo) ==
    Exc("TimeoutError", [message |-> message, cause |-> None, timeout |-> tmo])

----------------------------------------------------------------------------
(* exceptions.py: create_error_from_response *)

DefaultMessage == PyStr("An error occurred")

\* error_map.get(status_code, APIError)
error_map_get(status_code) ==
    CASE status_code = 400 -> "ValidationError"
      [] status_code = 401 -> "AuthenticationError"
      [] status_code = 403 -> "AuthorizationError"
      [] status_code = 404 -> "NotFoundError"
      [] status_code = 429 -> "RateLimitError"
      [] OTHER -> "APIError"

\* error_class(message, response=response_body, request_id=request_id)
construct(error_class, message, kwargs) ==
    CASE error_class = "ValidationError" -> ValidationError(message, None, kwargs)
      [] error_class = "AuthenticationError" -> AuthenticationError(message, kwargs)
      [] error_class = "AuthorizationError" -> AuthorizationError(message, kwargs)
      [] error_class = "NotFoundError" -> NotFoundError(message, None, kwargs)
      [] error_class = "RateLimitError" -> RateLimitError(message, None, None, kwargs)
      [] OTHER -> APIError_init("APIError", message, kwargs, NoItems)

create_error_from_response(status_code, response_body, request_id) ==
    IF Truthy(response_body) /\ response_body.t # "dict"
    THEN Raised(AttributeError)   \* response_body.get on a list, str or number
    ELSE
    LET message == IF Truthy(response_body)
                   THEN Get(response_body, "message",
                            Get(response_body, "error", DefaultMessage))
                   ELSE DefaultMessage
        error_class == error_map_get(status_code)
    IN  IF status_code >= 500
        THEN ServerError(message, [status_code |-> PyInt(status_code),
                                   response |-> response_body,
                                   request_id |-> request_id])
        ELSE IF error_class = "RateLimitError" /\ Truthy(response_body)
        THEN RateLimitError(message,
                            Get(response_body, "retry_after", None),
                            Get(response_body, "limit", None),
                            [response |-> response_body, request_id |-> request_id])
        ELSE IF error_class = "ValidationError" /\ Truthy(response_body)
        THEN ValidationError(message, Get(response_body, "errors", None),
                             [response |-> response_body, request_id |-> request_id])
        ELSE construct(error_class, message,
                       [response |-> response_body, request_id |-> request_id])

----------------------------------------------------------------------------
(* Inputs: status codes, response bodies, request ids *)

Statuses == {200, 204, 302, 399, 400, 401, 402, 403, 404, 408, 409, 422, 429,
             499, 500, 502, 503, 504}

BodyKeys == {"message", "error", "retry_after", "limit", "errors"}

BodyValue(key) ==
    CASE key = "message" -> PyStr("Invalid request")
      [] key = "error" -> PyStr("bad_request")
      [] key = "retry_after" -> PyInt(60)
      [] key = "limit" -> PyInt(100)
      [] key = "errors" -> PyDict([field |-> PyStr("required")])

\* JSON objects over every subset of the keys the mapper reads.
JsonObjects == {PyDict([k \in ks |-> BodyValue(k)]) : ks \in SUBSET BodyKeys}

\* JSON documents that are not objects: null, lists, strings, numbers.
JsonOthers == {None, PyList(0), PyList(1), PyStr("Bad Gateway"), PyInt(0)}

JsonValues == JsonObjects \cup JsonOthers

RequestIds == {None, PyStr("req-1")}

----------------------------------------------------------------------------
(* SpecMap: create_error_from_response as a pure function *)

NotApplied == [ok |-> FALSE, exc |-> Exc("NotApplied", NoItems)]

HttpIdle ==
    /\ max_retries = 0
    /\ timeout = 30
    /\ pc = "idle"
    /\ attempt_number = 0
    /\ attempt_log = <<>>
    /\ response = [status_code |-> 0, parses |-> FALSE, json |-> None, request_id |-> None]
    /\ outcome = [kind |-> "pending", val |-> None, exc |-> Exc("None", NoItems), again |-> FALSE]

\* asyncio tasks that call AsyncHTTPClient.request() on one event loop.
MaxTasks == 2
Tasks == 1..MaxTasks

\* No task has called request(); the event loop is idle.
AsyncIdle ==
    /\ task_pc = [t \in Tasks |-> "idle"]
    /\ running = 0

\* The arguments of the resource operations that the model follows; lengths
\* stand for the strings.
NoArgs ==
    [organization_id |-> 0, provider |-> "", model_id |-> 0,
     input_tokens |-> 0, output_tokens |-> 0, total_tokens |-> 0]

\* No resource operation has been called.
ResIdle ==
    /\ res_op = "none"
    /\ res_args = NoArgs
    /\ res_pc = "idle"
    /\ res_outcome = [kind |-> "pending", val |-> None, exc |-> Exc("None", NoItems), again |-> FALSE]
    /\ res_calls = 0
    /\ req_entered = 0

\* No configuration object has been constructed; the environment is empty.
CfgIdle ==
    /\ environ = [api_key |-> None, base_url |-> None]
    /\ cfg_args = NoItems
    /\ cfg = [cls |-> "none", ok |-> FALSE, v |-> NoItems, parameter |-> ""]

\* The asynchronous transport has made no request.
AHttpIdle ==
    /\ a_pc = "idle"
    /\ a_attempt_number = 0
    /\ a_attempt_log = <<>>
    /\ a_response = [status_code |-> 0, parses |-> FALSE, json |-> None, request_id |-> None]
    /\ a_outcome = [kind |-> "pending", val |-> None, exc |-> Exc("None", NoItems), again |-> FALSE]

\* No client is used as a context manager.
CtxIdle ==
    /\ client_kind = "sync"
    /\ scope = "none"
    /\ resources = {}
    /\ user_closes = 0
    /\ closes = 0
    /\ pool = "open"
    /\ body_exc = Exc("None", NoItems)
    /\ propagated = Exc("None", NoItems)

\* The two threads that share the limiter.
Threads == {1, 2}

\* No thread is inside acquire().
ThIdle ==
    /\ th_pc = [t \in Threads |-> "idle"]
    /\ th_wake = [t \in Threads |-> 0]
    /\ overlapped = FALSE

\* No limiter is followed in floating point.
FpIdle ==
    /\ fp_max_requests = 0
    /\ fp_time_window = 0
    /\ fp_now = 0
    /\ fp_tokens = 0
    /\ fp_last_update = 0
    /\ fp_tokens0 = 0
    /\ fp_last_update0 = 0
    /\ fp_polls = 0

\* The clock has not been set back.
ClkIdle == clock_backs = 0

\* No retry wait is followed.
BoIdle ==
    /\ backoff_factor = 0
    /\ max_backoff = 0
    /\ waits = <<>>

\* No facade client has been built.
FacIdle ==
    /\ fac_kind = "none"
    /\ fac_http_client = 0
    /\ fac_resources = [r \in {"usage", "costs", "pricing", "analytics"} |-> 0]
    /\ obj_client = <<>>
    /\ transports = 0
    /\ next_id = 1
    /\ returned = [name |-> "none", id |-> 0]

\* No URL has been built.
UrlIdle ==
    /\ url_base = [netloc |-> <<>>, path |-> <<>>]
    /\ url_called = FALSE
    /\ url_path = <<>>
    /\ url_result = [netloc |-> <<>>, path |-> <<>>]

\* The parts added for single specifications are unused, except the one named.
MoreIdleBut(part) ==
    /\ IF part = "fp" THEN TRUE ELSE FpIdle
    /\ IF part = "clk" THEN TRUE ELSE ClkIdle
    /\ IF part = "bo" THEN TRUE ELSE BoIdle
    /\ IF part = "fac" THEN TRUE ELSE FacIdle
    /\ IF part = "url" THEN TRUE ELSE UrlIdle

AuxIdle == ThIdle /\ MoreIdleBut("none")

\* The parts of the program a specification does not exercise stay as built.
ExtIdle == AsyncIdle /\ ResIdle /\ CfgIdle /\ AHttpIdle /\ CtxIdle /\ AuxIdle

\* self.rate_limiter is None: the transport was built without rate_limit.
NoLimiter ==
    /\ rl_max_requests = 0
    /\ rl_time_window = 0
    /\ tokens = 0
    /\ last_update = 0
    /\ now = 0
    /\ rl_pc = "idle"
    /\ acquired = 0
    /\ slept = 0
    /\ full_at = 0
    /\ since_full = 0
    /\ empty_at = -1
    /\ last_wait = -1

\* Everything outside the part named is as built and unused.
IdleBut(part) ==
    /\ m_status = 0
    /\ m_body = None
    /\ m_request_id = None
    /\ m_result = NotApplied
    /\ HttpIdle
    /\ NoLimiter
    /\ AsyncIdle
    /\ ResIdle
    /\ CfgIdle
    /\ AHttpIdle
    /\ CtxIdle
    /\ ThIdle
    /\ MoreIdleBut(part)

InitMap ==
    /\ m_status \in Statuses
    /\ m_body \in JsonValues
    /\ m_request_id \in RequestIds
    /\ m_result = NotApplied
    /\ HttpIdle
    /\ NoLimiter
    /\ ExtIdle

Apply ==
    /\ m_result = NotApplied
    /\ m_result' = create_error_from_response(m_status, m_body, m_request_id)
    /\ UNCHANGED <<m_status, m_body, m_request_id, httpVars, rlVars, extVars>>

NextMap == Apply

SpecMap == InitMap /\ [][NextMap]_vars

----------------------------------------------------------------------------
(* http_client.py: RateLimiter *)

MaxRequests == 3      \* max_requests ranges over 1..MaxRequests
MaxWindow == 4        \* time_window ranges over 1..MaxWindow ticks
MaxTime == 10         \* the clock is followed up to MaxTime ticks
MaxOversleep == 2     \* time.sleep(0.1) returns after 1..MaxOversleep ticks

Min(a, b) == IF a <= b THEN a ELSE b

RECURSIVE Pow2(_)
Pow2(n) == IF n = 0 THEN 1 ELSE 2 * Pow2(n - 1)

\* Mutant: the refill is not capped at max_requests.
refill_uncapped(t, elapsed) == t + elapsed * rl_max_requests

\* Mutant: the refill credits twice the configured rate.
refill_fast(t, elapsed) ==
    Min(rl_max_requests * rl_time_window, t + 2 * elapsed * rl_max_requests)

\* _refill: min(max_requests, tokens + elapsed * max_requests / time_window),
\* on the scaled token count t.
refill(t, elapsed) ==
    Min(rl_max_requests * rl_time_window, t + elapsed * rl_max_requests)

\* Mutant: a token is granted only when more than one is in the bucket.
has_token_strict(t) == t > rl_time_window

\* `if self.tokens >= 1.0`, on the scaled token count
has_token(t) == t >= rl_time_window

\* Mutant: acquire takes two tokens.
consume_double(t) == t - 2 * rl_time_window

\* `self.tokens -= 1.0`, on the scaled token count
consume(t) == t - rl_time_window

\* RateLimiter.__init__: a full bucket, last_update = time.time()
InitRL ==
    /\ rl_max_requests \in 1..MaxRequests
    /\ rl_time_window \in 1..MaxWindow
    /\ tokens = rl_max_requests * rl_time_window
    /\ now = 0
    /\ last_update = now
    /\ rl_pc = "idle"
    /\ acquired = 0
    /\ slept = 0
    /\ full_at = 0
    /\ since_full = 0
    /\ empty_at = -1
    /\ last_wait = -1
    /\ m_status = 0
    /\ m_body = None
    /\ m_request_id = None
    /\ m_result = NotApplied
    /\ HttpIdle
    /\ ExtIdle

\* acquire() is called. The clock is followed to MaxTime, so a call starts
\* only when the time it can take still fits.
AcquireCall ==
    /\ rl_pc = "idle"
    /\ now + rl_time_window + MaxOversleep <= MaxTime
    /\ rl_pc' = "loop"
    /\ slept' = 0
    /\ UNCHANGED <<extVars, mapVars, httpVars, rl_max_requests, rl_time_window, tokens,
                   last_update, now, acquired, full_at, since_full, empty_at,
                   last_wait>>

\* One iteration of acquire's loop: _refill(), then either take a token and
\* return, or go to sleep.
Poll ==
    /\ rl_pc = "loop"
    /\ LET filled == refill(tokens, now - last_update)
           full == filled = rl_max_requests * rl_time_window
       IN  /\ last_update' = now
           /\ IF has_token(filled)
              THEN /\ tokens' = consume(filled)
                   /\ rl_pc' = "idle"
                   /\ acquired' = acquired + 1
                   /\ slept' = slept
                   /\ full_at' = IF full THEN now ELSE full_at
                   /\ since_full' = IF full THEN 1 ELSE since_full + 1
                   /\ empty_at' = IF tokens' = 0 THEN now ELSE -1
                   /\ last_wait' = IF empty_at >= 0 THEN now - empty_at ELSE -1
              ELSE /\ tokens' = filled
                   /\ rl_pc' = "sleep"
                   /\ slept' = slept + 1
                   /\ UNCHANGED <<acquired, full_at, since_full, empty_at, last_wait>>
    /\ UNCHANGED <<extVars, mapVars, httpVars, rl_max_requests, rl_time_window, now>>

\* time.sleep(0.1) returns: at least one tick has passed.
Sleep ==
    /\ rl_pc = "sleep"
    /\ \E d \in 1..MaxOversleep :
        /\ now + d <= MaxTime
        /\ now' = now + d
    /\ rl_pc' = "loop"
    /\ UNCHANGED <<extVars, mapVars, httpVars, rl_max_requests, rl_time_window, tokens,
                   last_update, acquired, slept, full_at, since_full, empty_at,
                   last_wait>>

\* Time passes between two acquire() calls.
Elapse ==
    /\ rl_pc = "idle"
    /\ now < MaxTime
    /\ now' = now + 1
    /\ UNCHANGED <<extVars, mapVars, httpVars, rl_max_requests, rl_time_window, tokens,
                   last_update, rl_pc, acquired, slept, full_at, since_full,
                   empty_at, last_wait>>

NextRL == AcquireCall \/ Poll \/ Sleep \/ Elapse

SpecRL == InitRL /\ [][NextRL]_vars

\* The calling thread keeps running and time.sleep returns.
SpecRLFair == SpecRL /\ WF_vars(Poll) /\ WF_vars(Sleep)

----------------------------------------------------------------------------
(* http_client.py: the transport's request() *)

MaxRetries == 2
Timeouts == {5, 30}

NoExc == Exc("None", NoItems)
NoResponse == [status_code |-> 0, parses |-> FALSE, json |-> None, request_id |-> None]

\* httpx responses: the status, whether the body parses as JSON and to what,
\* and the X-Request-Id header (None when absent).
Responses ==
    [status_code : Statuses, parses : {TRUE}, json : JsonValues, request_id : RequestIds]
    \cup [status_code : Statuses, parses : {FALSE}, json : {None}, request_id : RequestIds]

\* What httpx raises instead of returning a response.
HttpxErrors ==
    {Exc(c, NoItems) : c \in {"httpx.ConnectTimeout", "httpx.ReadTimeout",
                              "httpx.ConnectError", "httpx.ReadError",
                              "httpx.RemoteProtocolError", "httpx.TooManyRedirects"}}

\* The outcomes of one self.client.request(...) call.
HttpOutcomes ==
    {[ok |-> TRUE, resp |-> r, exc |-> NoExc] : r \in Responses}
    \cup {[ok |-> FALSE, resp |-> NoResponse, exc |-> e] : e \in HttpxErrors}

\* _make_request: one attempt. Returns the response, maps httpx timeouts and
\* network errors to the SDK's types, lets anything else propagate.
make_request(o) ==
    IF o.ok THEN o
    ELSE IF IsInstance(o.exc, "httpx.TimeoutException")
    THEN [o EXCEPT !.exc = SDKTimeoutError(PyStr("timed out"), PyInt(timeout))]
    ELSE IF IsInstance(o.exc, "httpx.NetworkError")
    THEN [o EXCEPT !.exc = NetworkError(PyStr("Network error"), PyStr(o.exc.cls))]
    ELSE o

\* retry=retry_if_exception_type((NetworkError, httpx.NetworkError, httpx.TimeoutException))
retry_if_exception_type(exc) ==
    \/ IsInstance(exc, "NetworkError")
    \/ IsInstance(exc, "httpx.NetworkError")
    \/ IsInstance(exc, "httpx.TimeoutException")

\* Mutant: the exponent is the attempt number, so the first wait is doubled.
wait_exponential_late(n) == Min(backoff_factor * Pow2(n), max_backoff)

\* wait=wait_exponential(multiplier=backoff_factor, max=max_backoff), called
\* after failed attempt n: multiplier * 2 ** (n - 1), at most max (and at
\* least the default min of 0).
wait_exponential(n) == Min(backoff_factor * Pow2(n - 1), max_backoff)

\* Mutant: the wrapper stops one attempt early, stop_after_attempt(max_retries).
stop_after_attempt_early(n) == n >= max_retries

\* stop=stop_after_attempt(max_retries + 1), asked after attempt number n failed
stop_after_attempt(n) == n >= max_retries + 1

\* Mutant: the wrapper raises the first attempt's exception when it stops.
reraise_first(log) == log[1].raised

\* reraise=True: when the wrapper stops, the last attempt's exception is raised
reraise(log) == log[Len(log)].raised

RetryOnStatus == {408, 429, 500, 502, 503, 504}

\* BaseHTTPClient._should_retry
should_retry(exc) ==
    IF IsInstance(exc, "APIError")
    THEN Attr(exc, "status_code").t = "int" /\ Attr(exc, "status_code").v \in RetryOnStatus
    ELSE IF \/ IsInstance(exc, "NetworkError")
            \/ IsInstance(exc, "httpx.NetworkError")
            \/ IsInstance(exc, "httpx.TimeoutException")
    THEN TRUE
    ELSE FALSE

\* Mutant: an error that _should_retry accepts goes back into the retry wrapper.
raise_error_retrying(error) ==
    IF should_retry(error)
    THEN [again |-> TRUE, exc |-> error]
    ELSE [again |-> FALSE, exc |-> error]

\* `if self._should_retry(error): raise error` followed by `raise error`:
\* both raise outside the retry-wrapped function, so neither re-enters it.
raise_error(error) ==
    IF should_retry(error)
    THEN [again |-> FALSE, exc |-> error]
    ELSE [again |-> FALSE, exc |-> error]

\* Mutant: the `except APIError: raise` clause is missing, so the final clause
\* wraps API errors like any other exception.
outer_except_wraps_api(exc) ==
    IF IsInstance(exc, "NetworkError") \/ IsInstance(exc, "TimeoutError") THEN exc
    ELSE NetworkError(PyStr("Unexpected error"), PyStr(exc.cls))

\* Mutant: the final `except Exception` clause is missing.
outer_except_raw(exc) == exc

\* The except clauses that close request(): SDK errors pass, the rest is wrapped.
outer_except(exc) ==
    IF IsInstance(exc, "NetworkError") \/ IsInstance(exc, "TimeoutError") THEN exc
    ELSE IF IsInstance(exc, "APIError") THEN exc
    ELSE NetworkError(PyStr("Unexpected error"), PyStr(exc.cls))

Pending == [kind |-> "pending", val |-> None, exc |-> NoExc, again |-> FALSE]
Return(val) == [kind |-> "return", val |-> val, exc |-> NoExc, again |-> FALSE]
Raise(exc, again) == [kind |-> "raise", val |-> None, exc |-> exc, again |-> again]

\* request() after _make_request returned: the request id, the error path for
\* status >= 400, the JSON parse of a successful response.
handle_response(resp) ==
    LET request_id == resp.request_id
    IN  IF resp.status_code >= 400
        THEN LET response_body == IF resp.parses THEN resp.json ELSE None
                 made == create_error_from_response(resp.status_code, response_body,
                                                    request_id)
             IN  IF made.ok
                 THEN LET r == raise_error(made.exc) IN Raise(r.exc, r.again)
                 ELSE Raise(made.exc, FALSE)
        ELSE IF resp.parses
        THEN Return(resp.json)
        ELSE Raise(APIError_init("APIError", PyStr("Failed to parse response"),
                                 [status_code |-> PyInt(resp.status_code),
                                  request_id |-> request_id], NoItems).exc, FALSE)

Init ==
    /\ m_status = 0
    /\ m_body = None
    /\ m_request_id = None
    /\ m_result = NotApplied
    /\ max_retries \in 0..MaxRetries
    /\ timeout \in Timeouts
    /\ pc = "idle"
    /\ attempt_number = 0
    /\ attempt_log = <<>>
    /\ response = NoResponse
    /\ outcome = Pending
    /\ NoLimiter
    /\ ExtIdle

\* request() is called: no rate limiter is configured (ClientConfig.rate_limit
\* defaults to None), so the call goes straight to the first attempt.
Request ==
    /\ pc \in {"idle", "done"}
    /\ pc' = "attempt"
    /\ attempt_number' = 0
    /\ attempt_log' = <<>>
    /\ response' = NoResponse
    /\ outcome' = Pending
    /\ UNCHANGED <<extVars, rlVars, mapVars, max_retries, timeout>>

\* One HTTP attempt with outcome o and everything request() does until it
\* either returns, raises, or goes to sleep before the next attempt.
AttemptOn(o) ==
    LET n == attempt_number + 1
        r == make_request(o)
    IN  /\ attempt_number' = n
        /\ IF r.ok
           THEN LET h == handle_response(r.resp)
                IN  /\ response' = r.resp
                    /\ attempt_log' = attempt_log
                    /\ IF h.again /\ ~stop_after_attempt(n)
                       THEN pc' = "wait" /\ outcome' = outcome
                       ELSE pc' = "done" /\ outcome' = [h EXCEPT !.exc =
                                IF h.kind = "raise" THEN outer_except(h.exc) ELSE h.exc]
           ELSE /\ response' = response
                /\ IF retry_if_exception_type(r.exc)
                   THEN /\ attempt_log' = Append(attempt_log,
                                                [raw |-> o.exc.cls, raised |-> r.exc])
                        /\ IF stop_after_attempt(n)
                           THEN /\ pc' = "done"
                                /\ outcome' = Raise(outer_except(reraise(attempt_log')), FALSE)
                           ELSE /\ pc' = "wait"
                                /\ outcome' = outcome
                   ELSE /\ attempt_log' = attempt_log
                        /\ pc' = "done"
                        /\ outcome' = Raise(outer_except(r.exc), FALSE)

\* An attempt whose outcome is one of the given set.
AttemptWith(outcomes) ==
    /\ pc = "attempt"
    /\ \E o \in outcomes : AttemptOn(o)
    /\ UNCHANGED <<mapVars, auxVars, max_retries, timeout>>

\* An attempt of the transport on its own: any response, any httpx error.
Attempt ==
    /\ AttemptWith(HttpOutcomes)
    /\ UNCHANGED <<extVars, rlVars>>

\* The retry wrapper sleeps its backoff, then makes the next attempt.
Backoff ==
    /\ pc = "wait"
    /\ pc' = "attempt"
    /\ UNCHANGED <<extVars, rlVars, mapVars, max_retries, timeout, attempt_number, attempt_log,
                   response, outcome>>

Next == Request \/ Attempt \/ Backoff

Spec == Init /\ [][Next]_vars

----------------------------------------------------------------------------
(* Properties of the transport (Spec) and of the error mapper (SpecMap) *)

\* Every attempt of the current request failed with a timeout or network error.
AllAttemptsFailed == attempt_number > 0 /\ Len(attempt_log) = attempt_number

DedicatedStatuses == {400, 401, 403, 404, 429}

\* The body is absent, not JSON, null or a JSON object: the values the
\* mapper's signature (Optional[Dict[str, Any]]) declares.
DeclaredBody(body) == body.t \in {"None", "dict"}

\* C1: with max_retries = N no request makes more than N+1 HTTP attempts, and
\* a request whose every attempt fails with a timeout or a network failure
\* ends only after exactly N+1 attempts, raising that error to the caller.
C1_RetryBound ==
    /\ attempt_number <= max_retries + 1
    /\ (pc = "done" /\ AllAttemptsFailed) =>
            /\ attempt_number = max_retries + 1
            /\ outcome.kind = "raise"
            /\ IsInstance(outcome.exc, "NetworkError")

C1_Witness ==
    /\ pc = "done" /\ max_retries = 2 /\ attempt_number = 3
    /\ Len(attempt_log) = 3
    /\ \A i \in 1..3 : attempt_log[i].raised.cls = "TimeoutError"
    /\ outcome.kind = "raise" /\ outcome.exc.cls = "TimeoutError"

C3_ServerErrorCarriesStatus ==
    (pc = "done" /\ response.status_code >= 500 /\ DeclaredBody(response.json)) =>
        /\ outcome.kind = "raise"
        /\ outcome.exc.cls = "ServerError"
        /\ Attr(outcome.exc, "status_code") = PyInt(response.status_code)

C5_DedicatedKinds ==
    (pc = "done" /\ response.status_code \in DedicatedStatuses) =>
        /\ outcome.kind = "raise"
        /\ outcome.exc.cls = error_map_get(response.status_code)
        /\ Attr(outcome.exc, "status_code") = PyInt(response.status_code)

\* C6: create_error_from_response is total: for every status code, every
\* present (a dict) or absent body and every request id it returns a typed
\* error and does not raise, and a status below 500 without a dedicated kind
\* gives a plain APIError.
C6_MapperTotal ==
    (m_result # NotApplied /\ DeclaredBody(m_body)) =>
        /\ m_result.ok
        /\ IsInstance(m_result.exc, "APIError")
        /\ (m_status < 500 /\ m_status \notin DedicatedStatuses) =>
                m_result.exc.cls = "APIError"

\* C7: every error raised for a response with status >= 400 carries the
\* response's status as status_code, the parsed body as response and the
\* X-Request-Id header (None when absent) as request_id. Stated for the
\* bodies the mapper declares.
C7_ErrorCarriesContext ==
    (pc = "done" /\ response.status_code >= 400 /\ DeclaredBody(response.json)) =>
        /\ outcome.kind = "raise"
        /\ HasAttr(outcome.exc, "status_code")
        /\ Attr(outcome.exc, "status_code") = PyInt(response.status_code)
        /\ Attr(outcome.exc, "response") =
                (IF response.parses THEN response.json ELSE None)
        /\ Attr(outcome.exc, "request_id") = response.request_id

\* C8: when the retries are exhausted the caller gets the typed error of the
\* last failed attempt: a TimeoutError carrying the configured timeout when
\* that attempt timed out, a NetworkError carrying what httpx raised when it
\* failed at network level; no wrapper error, no earlier attempt's error.
C8_LastErrorSurfaces ==
    (pc = "done" /\ AllAttemptsFailed) =>
        LET last == attempt_log[Len(attempt_log)]
        IN  /\ outcome.kind = "raise"
            /\ IF last.raw \in {"httpx.ConnectTimeout", "httpx.ReadTimeout"}
               THEN /\ outcome.exc.cls = "TimeoutError"
                    /\ Attr(outcome.exc, "timeout") = PyInt(timeout)
               ELSE /\ outcome.exc.cls = "NetworkError"
                    /\ Attr(outcome.exc, "cause") = PyStr(last.raw)

C8_Witness ==
    /\ pc = "done" /\ max_retries = 2 /\ attempt_number = 3
    /\ Len(attempt_log) = 3
    /\ attempt_log[1].raw = "httpx.ReadTimeout"
    /\ attempt_log[2].raw = "httpx.ConnectError"
    /\ attempt_log[3].raw = "httpx.ReadError"
    /\ outcome.exc.cls = "NetworkError"
    /\ Attr(outcome.exc, "cause") = PyStr("httpx.ReadError")

----------------------------------------------------------------------------
(* Properties of the RateLimiter (SpecRL, SpecRLFair) *)

\* C9: from a full bucket of capacity C, the first C acquire() calls made at
\* the same clock reading never go to sleep, and an acquire() that follows
\* the emptying of the bucket returns only when at least W/C has elapsed since
\* (wait * C >= W, with W the window).
C9_BurstThenWait ==
    /\ rl_pc = "sleep" => ~(now = full_at /\ since_full < rl_max_requests)
    /\ last_wait >= 0 => last_wait * rl_max_requests >= rl_time_window

C9_Witness ==
    /\ rl_max_requests = 3 /\ rl_time_window = 4
    /\ rl_pc = "idle" /\ full_at = 0 /\ since_full = 4
    /\ slept = 2 /\ last_wait = 2

\* C10: acquire() has no failing exit: provided the thread runs and time
\* advances, every call that has started eventually returns, and the step
\* that returns leaves exactly one token less than the refilled bucket held.
C10_AcquireReturns ==
    /\ [](rl_pc # "idle" => <>(rl_pc = "idle"))
    /\ [][(rl_pc # "idle" /\ rl_pc' = "idle") =>
            /\ tokens' = Min(rl_max_requests * rl_time_window,
                             tokens + (now - last_update) * rl_max_requests)
                          - rl_time_window
            /\ acquired' = acquired + 1]_vars

C10_Witness ==
    /\ rl_pc = "idle" /\ acquired > rl_max_requests /\ slept > 0

----------------------------------------------------------------------------
(* http_client.py: AsyncHTTPClient.request() calls as tasks of one event loop *)

\* AsyncHTTPClient.__init__ with config.rate_limit set: one RateLimiter, full.
InitAsync == InitRL

\* The event loop starts (or resumes) task t at the top of request(): the code
\* runs to `self.rate_limiter.acquire()`, an ordinary call, not an await.
AsyncRequest(t) ==
    /\ running = 0
    /\ task_pc[t] \in {"idle", "done"}
    /\ rl_pc = "idle"
    /\ now + rl_time_window + MaxOversleep <= MaxTime
    /\ running' = t
    /\ task_pc' = [task_pc EXCEPT ![t] = "acquire"]
    /\ rl_pc' = "loop"
    /\ slept' = 0
    /\ UNCHANGED <<resVars, cfgVars, ahttpVars, ctxVars, mapVars, auxVars, httpVars, rl_max_requests, rl_time_window, tokens,
                   last_update, now, acquired, full_at, since_full, empty_at,
                   last_wait>>

\* acquire() has returned: task t goes on to `await self.client.request(...)`,
\* which suspends it and gives the event loop back.
AsyncSend(t) ==
    /\ running = t
    /\ task_pc[t] = "acquire"
    /\ rl_pc = "idle"
    /\ running' = 0
    /\ task_pc' = [task_pc EXCEPT ![t] = "await_io"]
    /\ UNCHANGED <<resVars, cfgVars, ahttpVars, ctxVars, mapVars, auxVars, httpVars, rlVars>>

\* The response of task t has arrived and the event loop, being free, resumes
\* the task, which finishes its request().
AsyncIO(t) ==
    /\ running = 0
    /\ task_pc[t] = "await_io"
    /\ task_pc' = [task_pc EXCEPT ![t] = "done"]
    /\ UNCHANGED <<resVars, cfgVars, ahttpVars, ctxVars, mapVars, auxVars, httpVars, rlVars, running>>

\* Time passes while the event loop waits for I/O.
AsyncElapse ==
    /\ running = 0
    /\ now < MaxTime
    /\ now' = now + 1
    /\ UNCHANGED <<extVars, mapVars, httpVars, rl_max_requests, rl_time_window, tokens,
                   last_update, rl_pc, acquired, slept, full_at, since_full,
                   empty_at, last_wait>>

NextAsync ==
    \/ \E t \in Tasks : AsyncRequest(t)
    \/ Poll
    \/ Sleep
    \/ \E t \in Tasks : AsyncSend(t)
    \/ \E t \in Tasks : AsyncIO(t)
    \/ AsyncElapse

SpecAsync == InitAsync /\ [][NextAsync]_vars

\* C11: in the asynchronous mode a request that waits for a rate-limit token
\* yields control: while task t sleeps in the rate limiter, every other
\* request in flight on the event loop can make its next step.
C11_WaitYields ==
    \A t \in Tasks : \A u \in Tasks :
        (task_pc[t] = "acquire" /\ rl_pc = "sleep" /\ task_pc[u] = "await_io")
            => ENABLED AsyncIO(u)

----------------------------------------------------------------------------
(* types.py and resources/*.py: the resource operations *)

Ops == {"usage.submit", "usage.get_history", "costs.get", "pricing.create",
        "pricing.list", "pricing.get", "analytics.get"}

\* class Provider(str, Enum)
Providers == {"openai", "anthropic", "google", "azure_openai", "aws_bedrock",
              "cohere", "mistral"}

\* What pydantic and the enum raise; neither class belongs to exceptions.py.
PydanticValidationError(fields) ==
    Exc("pydantic.ValidationError", [errors |-> fields])
ValueError == Exc("ValueError", [message |-> PyStr("is not a valid Provider")])
NotIterable == Exc("TypeError", [message |-> PyStr("object is not iterable")])

\* Provider(provider): the enum lookup made before the request model is built
Provider(provider) ==
    IF provider \in Providers THEN Returned(NoExc) ELSE Raised(ValueError)

\* Mutant: the total_tokens validator accepts every value.
validate_total_tokens_skipped(a, data) == TRUE

\* SubmitUsageRequest.validate_total_tokens: data holds the fields validated
\* before total_tokens; TRUE when the validator returns v, FALSE when it raises.
validate_total_tokens(a, data) ==
    IF "input_tokens" \in data /\ "output_tokens" \in data
    THEN a.total_tokens = a.input_tokens + a.output_tokens
    ELSE TRUE

\* SubmitUsageRequest(...): the fields are validated in declaration order and
\* the construction raises when any of them failed.
SubmitUsageRequest(a) ==
    LET early == {f \in {"organization_id"} : a.organization_id < 1 \/ a.organization_id > 100}
                 \cup {f \in {"model_id"} : a.model_id < 1 \/ a.model_id > 255}
                 \cup {f \in {"input_tokens"} : a.input_tokens < 0}
                 \cup {f \in {"output_tokens"} : a.output_tokens < 0}
        data == {"organization_id", "provider", "model_id", "input_tokens",
                 "output_tokens"} \ early
        total == {f \in {"total_tokens"} :
                    a.total_tokens < 0 \/ ~validate_total_tokens(a, data)}
        failed == early \cup total
    IN  IF failed = {} THEN Returned(NoExc) ELSE Raised(PydanticValidationError(failed))

\* CreatePricingRequest(...): the model_id length is the constraint followed
CreatePricingRequest(a) ==
    IF a.model_id < 1 \/ a.model_id > 255
    THEN Raised(PydanticValidationError({"model_id"}))
    ELSE Returned(NoExc)

\* What an operation does before it calls self._client.request: build the
\* typed request (submit, create) or just collect the query parameters.
build_request(op, a) ==
    CASE op = "usage.submit" ->
            IF ~Provider(a.provider).ok THEN Provider(a.provider) ELSE SubmitUsageRequest(a)
      [] op = "pricing.create" ->
            IF ~Provider(a.provider).ok THEN Provider(a.provider) ELSE CreatePricingRequest(a)
      [] OTHER -> Returned(NoExc)

\* The response model an operation validates its payload into ("" when the
\* operation returns the payload as it came).
ResponseModel(op) ==
    CASE op = "usage.submit" -> "SubmitUsageResponse"
      [] op = "costs.get" -> "CostSummary"
      [] op \in {"pricing.create", "pricing.list", "pricing.get"} -> "PricingResponse"
      [] op = "analytics.get" -> "AnalyticsResponse"
      [] OTHER -> ""

\* The fields declared with Field(...), without a default
RequiredFields(model) ==
    CASE model = "SubmitUsageResponse" ->
            {"usage_id", "organization_id", "estimated_cost", "currency", "processed_at"}
      [] model = "CostSummary" ->
            {"total_cost", "currency", "total_tokens", "total_requests",
             "period_start", "period_end"}
      [] model = "PricingResponse" ->
            {"id", "provider", "model_id", "input_price_per_1k", "output_price_per_1k",
             "currency", "effective_date", "created_at", "updated_at"}
      [] model = "AnalyticsResponse" -> {"summary"}
      [] OTHER -> {}

\* A JSON array with its items (PyList keeps only the length).
PyArray(items) == [t |-> "array", v |-> items]

\* Mutant: a payload that does not conform raises the SDK's ValidationError.
model_validate_typed(model, data) ==
    IF data.t # "dict" \/ ~(RequiredFields(model) \subseteq DOMAIN data.v)
    THEN Raise(ValidationError(PyStr("Validation failed"), None, NoItems).exc, FALSE)
    ELSE Return([t |-> model, v |-> data.v])

\* Model.model_validate(data): data must be an object that has every required
\* field (the field values of the payloads followed are well typed).
model_validate(model, data) ==
    IF data.t # "dict" THEN Raise(PydanticValidationError({"__root__"}), FALSE)
    ELSE IF ~(RequiredFields(model) \subseteq DOMAIN data.v)
    THEN Raise(PydanticValidationError(RequiredFields(model) \ DOMAIN data.v), FALSE)
    ELSE Return([t |-> model, v |-> data.v])

\* Mutant: every operation falls back to the whole response.
unwrap_whole(resp, default) ==
    IF resp.t # "dict" THEN Raise(AttributeError, FALSE)
    ELSE Return(Get(resp, "data", resp))

\* response.get("data", default): AttributeError unless response is an object
unwrap(resp, default) ==
    IF resp.t # "dict" THEN Raise(AttributeError, FALSE)
    ELSE Return(Get(resp, "data", default))

RECURSIVE validate_items(_, _)
\* [Model.model_validate(item) for item in items]: the first failure raises
validate_items(model, items) ==
    IF items = <<>> THEN Return(PyArray(<<>>))
    ELSE LET head == model_validate(model, Head(items))
             rest == validate_items(model, Tail(items))
         IN  IF head.kind = "raise" THEN head
             ELSE IF rest.kind = "raise" THEN rest
             ELSE Return(PyArray(<<head.val>> \o rest.val.v))

\* The list comprehension of pricing.list over whatever `data` is.
validate_each(model, data) ==
    CASE data.t = "array" -> validate_items(model, data.v)
      [] data.t = "list" ->
            IF data.v = 0 THEN Return(PyArray(<<>>))
            ELSE Raise(PydanticValidationError({"__root__"}), FALSE)
      [] data.t = "dict" ->
            IF DOMAIN data.v = {} THEN Return(PyArray(<<>>))
            ELSE Raise(PydanticValidationError({"__root__"}), FALSE)
      [] data.t = "str" ->
            IF data.v = "" THEN Return(PyArray(<<>>))
            ELSE Raise(PydanticValidationError({"__root__"}), FALSE)
      [] OTHER -> Raise(NotIterable, FALSE)

\* What an operation does with the outcome of self._client.request: an error
\* propagates; a returned value is unwrapped and validated.
finish(op, out) ==
    IF out.kind = "raise" THEN out
    ELSE CASE op = "usage.get_history" -> unwrap(out.val, PyArray(<<>>))
           [] op = "pricing.list" ->
                LET u == unwrap(out.val, PyArray(<<>>))
                IN  IF u.kind = "raise" THEN u
                    ELSE validate_each(ResponseModel(op), u.val)
           [] OTHER ->
                LET u == unwrap(out.val, out.val)
                IN  IF u.kind = "raise" THEN u
                    ELSE model_validate(ResponseModel(op), u.val)

\* Resource operations followed in one behaviour.
MaxCalls == 2

\* The argument values tried: an empty and a one-character organization_id
\* and model_id, a known and an unknown provider, token counts around the
\* constraint total = input + output.
SubmitArgs ==
    [organization_id : {0, 1}, provider : {"openai", "acme"}, model_id : {0, 1},
     input_tokens : {-1, 1}, output_tokens : {1}, total_tokens : {0, 2, 3}]

CreateArgs ==
    {[NoArgs EXCEPT !.provider = p, !.model_id = m] : p \in {"openai", "acme"}, m \in {0, 1}}

ArgsOf(op) ==
    CASE op = "usage.submit" -> SubmitArgs
      [] op = "pricing.create" -> CreateArgs
      [] OTHER -> {[NoArgs EXCEPT !.provider = "openai"]}

\* A payload with every required field of the operation's response model
\* (usage.get_history returns raw records).
FullPayload(op) ==
    IF op = "usage.get_history" THEN PyDict([usage_id |-> PyStr("v")])
    ELSE PyDict([f \in RequiredFields(ResponseModel(op)) |-> PyStr("v")])

\* The JSON values a 2xx response to the operation may carry: the payload bare
\* and in a `data` envelope, conforming and not, a list of payloads, and JSON
\* that is not an object.
Payloads(op) ==
    {FullPayload(op), PyDict([data |-> FullPayload(op)]),
     PyDict(NoItems), PyDict([data |-> PyDict(NoItems)]),
     PyDict([data |-> PyArray(<<FullPayload(op)>>)]),
     PyDict([data |-> PyArray(<<FullPayload(op), PyDict(NoItems)>>)]),
     PyDict([data |-> None]), PyList(0), None}

\* The outcomes of one HTTP attempt made for a resource operation.
ResOutcomes(op) ==
    {[ok |-> TRUE, exc |-> NoExc,
      resp |-> [status_code |-> 200, parses |-> TRUE, json |-> j, request_id |-> None]] :
        j \in Payloads(op)}
    \cup {[ok |-> TRUE, exc |-> NoExc, resp |-> r] :
            r \in {[status_code |-> 200, parses |-> FALSE, json |-> None, request_id |-> None],
                   [status_code |-> 400, parses |-> TRUE,
                    json |-> PyDict([message |-> BodyValue("message")]),
                    request_id |-> PyStr("req-1")],
                   [status_code |-> 503, parses |-> FALSE, json |-> None, request_id |-> None]}}
    \cup {[ok |-> FALSE, resp |-> NoResponse, exc |-> Exc(c, NoItems)] :
            c \in {"httpx.ConnectTimeout", "httpx.ConnectError", "httpx.RemoteProtocolError"}}

\* A client built with a rate limit: a full bucket, no operation called yet.
InitRes ==
    /\ m_status = 0
    /\ m_body = None
    /\ m_request_id = None
    /\ m_result = NotApplied
    /\ max_retries \in {0, 1}
    /\ timeout = 30
    /\ pc = "idle"
    /\ attempt_number = 0
    /\ attempt_log = <<>>
    /\ response = NoResponse
    /\ outcome = Pending
    /\ rl_max_requests \in {1, 2}
    /\ rl_time_window = 1
    /\ tokens = rl_max_requests * rl_time_window
    /\ now = 0
    /\ last_update = now
    /\ rl_pc = "idle"
    /\ acquired = 0
    /\ slept = 0
    /\ full_at = 0
    /\ since_full = 0
    /\ empty_at = -1
    /\ last_wait = -1
    /\ ExtIdle

\* An operation is called: it builds its request and, unless that raised,
\* enters self._client.request, which starts with rate_limiter.acquire().
ResCall(op, a) ==
    /\ res_pc \in {"idle", "done"}
    /\ res_calls < MaxCalls
    /\ res_calls' = res_calls + 1
    /\ res_op' = op
    /\ res_args' = a
    /\ LET built == build_request(op, a)
       IN  IF built.ok
           THEN /\ now + rl_time_window + MaxOversleep <= MaxTime
                /\ res_pc' = "request"
                /\ res_outcome' = Pending
                /\ req_entered' = req_entered + 1
                /\ attempt_number' = 0
                /\ attempt_log' = <<>>
                /\ response' = NoResponse
                /\ outcome' = Pending
                /\ IF rl_max_requests # 0        \* `if self.rate_limiter:`
                   THEN pc' = "acquire" /\ rl_pc' = "loop" /\ slept' = 0
                   ELSE pc' = "attempt" /\ rl_pc' = rl_pc /\ slept' = slept
                /\ UNCHANGED <<max_retries, timeout, rl_max_requests, rl_time_window,
                               tokens, last_update, now, acquired, full_at, since_full,
                               empty_at, last_wait>>
           ELSE /\ res_pc' = "done"
                /\ res_outcome' = Raise(built.exc, FALSE)
                /\ UNCHANGED <<req_entered, httpVars, rlVars>>
    /\ UNCHANGED <<mapVars, auxVars, asyncVars, cfgVars, ahttpVars, ctxVars>>

\* Mutant: request() does not wait for acquire() to return.
ResAcquired_unguarded ==
    /\ pc = "acquire"
    /\ pc' = "attempt"
    /\ UNCHANGED <<extVars, rlVars, mapVars, max_retries, timeout, attempt_number,
                   attempt_log, response, outcome>>

\* acquire() has returned: request() goes on to its first attempt.
ResAcquired ==
    /\ pc = "acquire"
    /\ rl_pc = "idle"
    /\ pc' = "attempt"
    /\ UNCHANGED <<extVars, rlVars, mapVars, max_retries, timeout, attempt_number,
                   attempt_log, response, outcome>>

\* One HTTP attempt of the request made for the operation.
ResAttempt ==
    /\ res_pc = "request"
    /\ AttemptWith(ResOutcomes(res_op))
    /\ UNCHANGED <<extVars, rlVars>>

\* self._client.request has returned or raised: the operation finishes.
ResReturn ==
    /\ res_pc = "request"
    /\ pc = "done"
    /\ res_pc' = "done"
    /\ res_outcome' = finish(res_op, outcome)
    /\ UNCHANGED <<res_op, res_args, res_calls, req_entered, asyncVars, cfgVars, ahttpVars, ctxVars,
                   mapVars, auxVars, httpVars, rlVars>>

NextRes ==
    \/ \E op \in Ops : \E a \in ArgsOf(op) : ResCall(op, a)
    \/ Poll
    \/ Sleep
    \/ ResAcquired
    \/ ResAttempt
    \/ Backoff
    \/ ResReturn

SpecRes == InitRes /\ [][NextRes]_vars

----------------------------------------------------------------------------
(* Properties of the resource operations (SpecRes) *)

\* The arguments of usage.submit satisfy every constraint of the request.
WellFormedUsage(a) ==
    /\ a.organization_id >= 1 /\ a.organization_id <= 100
    /\ a.provider \in Providers
    /\ a.model_id >= 1 /\ a.model_id <= 255
    /\ a.input_tokens >= 0
    /\ a.output_tokens >= 0
    /\ a.total_tokens = a.input_tokens + a.output_tokens

\* C12: usage.submit with total_tokens # input_tokens + output_tokens, or with
\* any other field violating its constraint, raises at the call without
\* touching the transport or the rate limiter (no attempt, no token taken);
\* with well-formed arguments the call enters the transport, and when it is
\* done a token was taken and an HTTP attempt was made.
C12_RejectedBeforeNetwork ==
    /\ [][(res_calls' = res_calls + 1 /\ res_op' = "usage.submit") =>
            IF WellFormedUsage(res_args')
            THEN res_pc' = "request" /\ pc' = "acquire" /\ rl_pc' = "loop"
            ELSE /\ res_pc' = "done"
                 /\ res_outcome'.kind = "raise"
                 /\ UNCHANGED <<httpVars, rlVars>>]_vars
    /\ [](res_op = "usage.submit" /\ res_pc = "done" /\ WellFormedUsage(res_args)
            => attempt_number >= 1 /\ acquired >= 1)

\* A second call, with only the total wrong, was rejected after a first call
\* had been sent.
C12_Witness ==
    /\ res_op = "usage.submit"
    /\ res_pc = "done"
    /\ res_calls = 2
    /\ WellFormedUsage([res_args EXCEPT !.total_tokens = 2])
    /\ res_args.total_tokens = 3
    /\ res_outcome.kind = "raise"
    /\ res_outcome.exc.cls = "pydantic.ValidationError"
    /\ acquired = 1
    /\ attempt_number >= 1

----------------------------------------------------------------------------
(* Further properties of the transport (Spec) *)

\* The body request() hands to the error mapper for the response it received.
ParsedBody == IF response.parses THEN response.json ELSE None

----------------------------------------------------------------------------
(* config.py: the configuration objects *)

\* Longest base URL argument tried.
MaxUrlLen == 2

\* A URL is the sequence of its characters; only "/" matters to the code.
PyUrl(u) == [t |-> "url", v |-> u]
Urls == UNION {[1..n -> {"a", "/"}] : n \in 0..MaxUrlLen}

\* base_url: str = "https://api.llm-cost-ops.dev", written as one character
DefaultBaseUrl == PyUrl(<<"d">>)

RECURSIVE rstrip(_)
\* str.rstrip("/")
rstrip(u) ==
    IF u # <<>> /\ u[Len(u)] = "/" THEN rstrip(SubSeq(u, 1, Len(u) - 1)) ELSE u

\* A constructor call returns the object or raises ConfigurationError(parameter=...).
Built(cls, fields) == [cls |-> cls, ok |-> TRUE, v |-> fields, parameter |-> ""]
ConfigurationError(cls, parameter) ==
    [cls |-> cls, ok |-> FALSE, v |-> NoItems, parameter |-> parameter]

\* RateLimitConfig.__post_init__
RateLimitConfig(a) ==
    IF a.max_requests <= 0 THEN ConfigurationError("RateLimitConfig", "max_requests")
    ELSE IF a.time_window <= 0 THEN ConfigurationError("RateLimitConfig", "time_window")
    ELSE Built("RateLimitConfig", a)

\* RetryConfig.__post_init__
RetryConfig(a) ==
    IF a.max_retries < 0 THEN ConfigurationError("RetryConfig", "max_retries")
    ELSE IF a.backoff_factor <= 0 THEN ConfigurationError("RetryConfig", "backoff_factor")
    ELSE IF a.max_backoff <= 0 THEN ConfigurationError("RetryConfig", "max_backoff")
    ELSE Built("RetryConfig", a)

\* ConnectionPoolConfig.__post_init__
ConnectionPoolConfig(a) ==
    IF a.max_connections <= 0
    THEN ConfigurationError("ConnectionPoolConfig", "max_connections")
    ELSE IF a.max_keepalive_connections < 0
    THEN ConfigurationError("ConnectionPoolConfig", "max_keepalive_connections")
    ELSE IF a.max_keepalive_connections > a.max_connections
    THEN ConfigurationError("ConnectionPoolConfig", "max_keepalive_connections")
    ELSE IF a.keepalive_expiry < 0
    THEN ConfigurationError("ConnectionPoolConfig", "keepalive_expiry")
    ELSE Built("ConnectionPoolConfig", a)

\* The field defaults of the nested configurations.
RetryDefaults == [max_retries |-> 3, backoff_factor |-> 2, max_backoff |-> 60]
PoolDefaults ==
    [max_connections |-> 100, max_keepalive_connections |-> 20, keepalive_expiry |-> 5]

\* A nested configuration argument: an object (dict = FALSE; the default
\* factory's, or None for rate_limit) or a dict still to be converted.
Object(v) == [dict |-> FALSE, v |-> v]
Dict(v) == [dict |-> TRUE, v |-> v]

\* ClientConfig(...): the dataclass fields, then __post_init__. An argument
\* that was not passed is None here and takes its field default.
ClientConfig(a, env) ==
    LET api_key == IF a.api_key = None THEN env.api_key ELSE a.api_key
        field_base_url == IF a.base_url = None THEN DefaultBaseUrl ELSE a.base_url
        base_url_env == env.base_url
        base_url == IF base_url_env # None /\ base_url_env.v # <<>>
                    THEN base_url_env ELSE field_base_url
        retry == IF a.retry.dict THEN RetryConfig(a.retry.v)
                 ELSE Built("RetryConfig", a.retry.v)
        connection_pool == IF a.connection_pool.dict
                           THEN ConnectionPoolConfig(a.connection_pool.v)
                           ELSE Built("ConnectionPoolConfig", a.connection_pool.v)
        rate_limit == IF a.rate_limit.dict THEN RateLimitConfig(a.rate_limit.v)
                      ELSE Built("RateLimitConfig", a.rate_limit.v)
    IN  IF api_key = None \/ api_key.v = ""
        THEN ConfigurationError("ClientConfig", "api_key")
        ELSE IF base_url.v = <<>> THEN ConfigurationError("ClientConfig", "base_url")
        ELSE IF a.timeout <= 0 THEN ConfigurationError("ClientConfig", "timeout")
        ELSE IF ~retry.ok THEN ConfigurationError("ClientConfig", retry.parameter)
        ELSE IF ~connection_pool.ok
        THEN ConfigurationError("ClientConfig", connection_pool.parameter)
        ELSE IF ~rate_limit.ok THEN ConfigurationError("ClientConfig", rate_limit.parameter)
        ELSE Built("ClientConfig",
                   [api_key |-> api_key,
                    base_url |-> PyUrl(rstrip(base_url.v)),
                    timeout |-> a.timeout,
                    retry |-> retry.v,
                    connection_pool |-> connection_pool.v,
                    rate_limit |-> rate_limit.v])

\* Constructor arguments tried: each constraint's boundary and a valid value.
RetryArgs == [max_retries : {-1, 0, 3}, backoff_factor : {0, 2}, max_backoff : {0, 60}]
RateLimitArgs == [max_requests : {0, 100}, time_window : {-1, 0, 60}]
PoolArgs ==
    [max_connections : {0, 10}, max_keepalive_connections : {-1, 0, 10, 20},
     keepalive_expiry : {-1, 5}]

\* The nested arguments of ClientConfig: all left to their defaults, or one of
\* them given as a dict.
NestedArgs ==
    {[retry |-> Object(RetryDefaults), connection_pool |-> Object(PoolDefaults),
      rate_limit |-> Object(None)]}
    \cup {[retry |-> Dict(r), connection_pool |-> Object(PoolDefaults),
           rate_limit |-> Object(None)] : r \in RetryArgs}
    \cup {[retry |-> Object(RetryDefaults), connection_pool |-> Dict(c),
           rate_limit |-> Object(None)] : c \in PoolArgs}
    \cup {[retry |-> Object(RetryDefaults), connection_pool |-> Object(PoolDefaults),
           rate_limit |-> Dict(l)] : l \in RateLimitArgs}

ClientArgs ==
    {[api_key |-> k, base_url |-> b, timeout |-> t, retry |-> n.retry,
      connection_pool |-> n.connection_pool, rate_limit |-> n.rate_limit] :
        k \in {None, PyStr(""), PyStr("arg-key")},
        b \in {None} \cup {PyUrl(u) : u \in Urls},
        t \in {-1, 0, 30},
        n \in NestedArgs}

\* os.environ as the process finds it: each variable unset, empty or set.
Environments ==
    [api_key : {None, PyStr(""), PyStr("env-key")},
     base_url : {None, PyUrl(<<>>), PyUrl(<<"e">>), PyUrl(<<"e", "/">>)}]

InitCfg ==
    /\ environ \in Environments
    /\ cfg_args = NoItems
    /\ cfg = [cls |-> "none", ok |-> FALSE, v |-> NoItems, parameter |-> ""]
    /\ m_status = 0
    /\ m_body = None
    /\ m_request_id = None
    /\ m_result = NotApplied
    /\ HttpIdle
    /\ NoLimiter
    /\ AsyncIdle
    /\ AuxIdle
    /\ ResIdle
    /\ AHttpIdle
    /\ CtxIdle

\* One constructor call is followed per behaviour: the process starts with
\* some environment and builds a configuration object.
NewRetryConfig ==
    /\ cfg.cls = "none"
    /\ \E a \in RetryArgs : cfg_args' = a /\ cfg' = RetryConfig(a)
    /\ UNCHANGED <<environ, asyncVars, resVars, ahttpVars, ctxVars, mapVars, auxVars, httpVars, rlVars>>

NewRateLimitConfig ==
    /\ cfg.cls = "none"
    /\ \E a \in RateLimitArgs : cfg_args' = a /\ cfg' = RateLimitConfig(a)
    /\ UNCHANGED <<environ, asyncVars, resVars, ahttpVars, ctxVars, mapVars, auxVars, httpVars, rlVars>>

NewConnectionPoolConfig ==
    /\ cfg.cls = "none"
    /\ \E a \in PoolArgs : cfg_args' = a /\ cfg' = ConnectionPoolConfig(a)
    /\ UNCHANGED <<environ, asyncVars, resVars, ahttpVars, ctxVars, mapVars, auxVars, httpVars, rlVars>>

NewClientConfig ==
    /\ cfg.cls = "none"
    /\ \E a \in ClientArgs : cfg_args' = a /\ cfg' = ClientConfig(a, environ)
    /\ UNCHANGED <<environ, asyncVars, resVars, ahttpVars, ctxVars, mapVars, auxVars, httpVars, rlVars>>

NextCfg ==
    \/ NewRetryConfig
    \/ NewRateLimitConfig
    \/ NewConnectionPoolConfig
    \/ NewClientConfig

SpecCfg == InitCfg /\ [][NextCfg]_vars

\* C15: an api_key or base_url passed explicitly to ClientConfig is never
\* overridden by the environment: the object built holds the value passed
\* (the base_url without its trailing slashes).
C15_ExplicitWins ==
    (cfg.cls = "ClientConfig" /\ cfg.ok) =>
        /\ cfg_args.api_key # None => cfg.v.api_key = cfg_args.api_key
        /\ cfg_args.base_url # None
            => cfg.v.base_url = PyUrl(rstrip(cfg_args.base_url.v))

\* The constraints the constructors state on their fields.
RetryValid(v) == v.max_retries >= 0 /\ v.backoff_factor > 0 /\ v.max_backoff > 0
RateLimitValid(v) == v.max_requests > 0 /\ v.time_window > 0
PoolValid(v) ==
    /\ v.max_connections > 0
    /\ v.max_keepalive_connections >= 0
    /\ v.max_keepalive_connections <= v.max_connections
ClientValid(v) ==
    /\ v.api_key # None /\ v.api_key.v # ""
    /\ v.base_url.v # <<>>
    /\ v.base_url.v[Len(v.base_url.v)] # "/"
    /\ v.timeout > 0
    /\ RetryValid(v.retry)
    /\ PoolValid(v.connection_pool)
    /\ "max_requests" \in DOMAIN v.rate_limit => RateLimitValid(v.rate_limit)

\* C16: configuration is validated at construction: ClientConfig raises when
\* no api_key is available, when base_url is empty or when timeout <= 0, the
\* nested configurations raise for a field outside its range, and hence every
\* object built satisfies all the constraints and its base_url has no
\* trailing slash. Stated for a process without LLM_COST_OPS_BASE_URL.
C16_ValidatedEagerly ==
    environ.base_url = None =>
        /\ cfg.cls = "ClientConfig" =>
            /\ ((cfg_args.api_key = None /\ environ.api_key = None)
                    \/ cfg_args.base_url = PyUrl(<<>>)
                    \/ cfg_args.timeout <= 0) => ~cfg.ok
            /\ cfg.ok => ClientValid(cfg.v)
        /\ cfg.cls = "RetryConfig" => (cfg.ok <=> RetryValid(cfg_args))
        /\ cfg.cls = "RateLimitConfig" => (cfg.ok <=> RateLimitValid(cfg_args))
        /\ cfg.cls = "ConnectionPoolConfig" => (cfg.ok => PoolValid(cfg.v))
        /\ cfg.cls = "ConnectionPoolConfig" => (~PoolValid(cfg_args) => ~cfg.ok)

----------------------------------------------------------------------------
(* http_client.py: AsyncHTTPClient.request() next to SyncHTTPClient.request() *)

\* The async _make_request: `await self.client.request(...)` and its except
\* clauses for httpx.TimeoutException and httpx.NetworkError.
async_make_request(o) ==
    IF o.ok THEN o
    ELSE IF IsInstance(o.exc, "httpx.TimeoutException")
    THEN [o EXCEPT !.exc = SDKTimeoutError(PyStr("timed out"), PyInt(timeout))]
    ELSE IF IsInstance(o.exc, "httpx.NetworkError")
    THEN [o EXCEPT !.exc = NetworkError(PyStr("Network error"), PyStr(o.exc.cls))]
    ELSE o

\* The async wrapper's retry=retry_if_exception_type((NetworkError, ...))
async_retry_if_exception_type(exc) ==
    \/ IsInstance(exc, "NetworkError")
    \/ IsInstance(exc, "httpx.NetworkError")
    \/ IsInstance(exc, "httpx.TimeoutException")

\* Mutant: the async wrapper allows one attempt more than the sync one.
async_stop_after_attempt_late(n) == n >= max_retries + 2

\* The async wrapper's stop=stop_after_attempt(self.config.retry.max_retries + 1)
async_stop_after_attempt(n) == n >= max_retries + 1

\* The async wrapper's reraise=True
async_reraise(log) == log[Len(log)].raised

\* The async `if self._should_retry(error): raise error` / `raise error`
async_raise_error(error) ==
    IF should_retry(error)
    THEN [again |-> FALSE, exc |-> error]
    ELSE [again |-> FALSE, exc |-> error]

\* The except clauses that close the async request()
async_outer_except(exc) ==
    IF IsInstance(exc, "NetworkError") \/ IsInstance(exc, "TimeoutError") THEN exc
    ELSE IF IsInstance(exc, "APIError") THEN exc
    ELSE NetworkError(PyStr("Unexpected error"), PyStr(exc.cls))

\* The async request() after `await _make_request()` returned
async_handle_response(resp) ==
    LET request_id == resp.request_id
    IN  IF resp.status_code >= 400
        THEN LET response_body == IF resp.parses THEN resp.json ELSE None
                 made == create_error_from_response(resp.status_code, response_body,
                                                    request_id)
             IN  IF made.ok
                 THEN LET r == async_raise_error(made.exc) IN Raise(r.exc, r.again)
                 ELSE Raise(made.exc, FALSE)
        ELSE IF resp.parses
        THEN Return(resp.json)
        ELSE Raise(APIError_init("APIError", PyStr("Failed to parse response"),
                                 [status_code |-> PyInt(resp.status_code),
                                  request_id |-> request_id], NoItems).exc, FALSE)

\* One attempt of the async request() with outcome o.
AsyncAttemptOn(o) ==
    LET n == a_attempt_number + 1
        r == async_make_request(o)
    IN  /\ a_attempt_number' = n
        /\ IF r.ok
           THEN LET h == async_handle_response(r.resp)
                IN  /\ a_response' = r.resp
                    /\ a_attempt_log' = a_attempt_log
                    /\ IF h.again /\ ~async_stop_after_attempt(n)
                       THEN a_pc' = "wait" /\ a_outcome' = a_outcome
                       ELSE a_pc' = "done" /\ a_outcome' = [h EXCEPT !.exc =
                                IF h.kind = "raise" THEN async_outer_except(h.exc)
                                ELSE h.exc]
           ELSE /\ a_response' = a_response
                /\ IF async_retry_if_exception_type(r.exc)
                   THEN /\ a_attempt_log' = Append(a_attempt_log,
                                                  [raw |-> o.exc.cls, raised |-> r.exc])
                        /\ IF async_stop_after_attempt(n)
                           THEN /\ a_pc' = "done"
                                /\ a_outcome' =
                                     Raise(async_outer_except(async_reraise(a_attempt_log')),
                                           FALSE)
                           ELSE /\ a_pc' = "wait"
                                /\ a_outcome' = a_outcome
                   ELSE /\ a_attempt_log' = a_attempt_log
                        /\ a_pc' = "done"
                        /\ a_outcome' = Raise(async_outer_except(r.exc), FALSE)

\* The per-attempt outcomes fed to both transports: every httpx error, and
\* responses of each handling path (success, dedicated and generic error
\* kinds, server error; object, non-object, absent and unparseable bodies).
PairOutcomes ==
    {[ok |-> TRUE, exc |-> NoExc,
      resp |-> [status_code |-> st, parses |-> TRUE, json |-> j, request_id |-> id]] :
        st \in {200, 404, 409, 429, 503},
        j \in {None, PyList(1), PyDict([message |-> BodyValue("message")]),
               PyDict([k \in {"retry_after", "limit"} |-> BodyValue(k)])},
        id \in RequestIds}
    \cup {[ok |-> TRUE, exc |-> NoExc,
           resp |-> [status_code |-> st, parses |-> FALSE, json |-> None,
                     request_id |-> None]] : st \in {200, 404, 409, 429, 503}}
    \cup {[ok |-> FALSE, resp |-> NoResponse, exc |-> e] : e \in HttpxErrors}

\* A sync and an async transport built from the same configuration.
InitPair == Init

\* The same request is made on both transports.
PairRequest ==
    /\ pc \in {"idle", "done"}
    /\ a_pc \in {"idle", "done"}
    /\ pc' = "attempt"
    /\ attempt_number' = 0
    /\ attempt_log' = <<>>
    /\ response' = NoResponse
    /\ outcome' = Pending
    /\ a_pc' = "attempt"
    /\ a_attempt_number' = 0
    /\ a_attempt_log' = <<>>
    /\ a_response' = NoResponse
    /\ a_outcome' = Pending
    /\ UNCHANGED <<asyncVars, resVars, cfgVars, ctxVars, rlVars, mapVars, auxVars, max_retries,
                   timeout>>

\* The next attempt of each transport that is still trying meets the same
\* outcome of the underlying HTTP call.
PairAttempt ==
    /\ pc = "attempt" \/ a_pc = "attempt"
    /\ \E o \in PairOutcomes :
        /\ IF pc = "attempt" THEN AttemptOn(o)
           ELSE UNCHANGED <<pc, attempt_number, attempt_log, response, outcome>>
        /\ IF a_pc = "attempt" THEN AsyncAttemptOn(o)
           ELSE UNCHANGED ahttpVars
    /\ UNCHANGED <<asyncVars, resVars, cfgVars, ctxVars, rlVars, mapVars, auxVars, max_retries,
                   timeout>>

\* The backoff sleeps of the two retry wrappers end.
PairBackoff ==
    /\ pc = "wait" \/ a_pc = "wait"
    /\ pc' = IF pc = "wait" THEN "attempt" ELSE pc
    /\ a_pc' = IF a_pc = "wait" THEN "attempt" ELSE a_pc
    /\ UNCHANGED <<asyncVars, resVars, cfgVars, ctxVars, rlVars, mapVars, auxVars, max_retries,
                   timeout, attempt_number, attempt_log, response, outcome,
                   a_attempt_number, a_attempt_log, a_response, a_outcome>>

NextPair == PairRequest \/ PairAttempt \/ PairBackoff

SpecPair == InitPair /\ [][NextPair]_vars

\* C17: the synchronous and the asynchronous transport are equivalent: given
\* the same request and the same outcome of each attempt, they are at the
\* same point after every step, have made the same number of attempts, and
\* end with the same returned value or the same error with the same fields.
C17_SyncAsyncEquivalent ==
    /\ a_pc = pc
    /\ a_attempt_number = attempt_number
    /\ pc = "done" => a_outcome = outcome /\ a_response = response

\* Both transports gave up after max_retries + 1 = 3 timeouts and raised the
\* same TimeoutError; both mapped a 429 response to the same RateLimitError.
C17_Witness ==
    /\ pc = "done"
    /\ a_pc = "done"
    /\ \/ /\ a_attempt_number = 3
          /\ a_outcome.kind = "raise"
          /\ a_outcome.exc.cls = "TimeoutError"
          /\ outcome.exc.cls = "TimeoutError"
       \/ /\ a_response.status_code = 429
          /\ a_outcome.exc.cls = "RateLimitError"
          /\ outcome.exc.cls = "RateLimitError"

----------------------------------------------------------------------------
(* Properties of response handling (Spec) *)

\* C18: for a response with status >= 400 the body never changes the kind of
\* outcome: whether it is absent, not JSON, a JSON object or JSON that is not
\* an object, the error raised is the kind mapped from the status code, and a
\* body that does not parse gives an error whose response is None. Stated for
\* the statuses 400..499.
C18_BodyNeverChangesKind ==
    (pc = "done" /\ response.status_code >= 400 /\ response.status_code < 500)
    => /\ outcome.kind = "raise"
       /\ outcome.exc.cls = error_map_get(response.status_code)
       /\ ~response.parses => Attr(outcome.exc, "response") = None

\* C19: a response with status < 400 whose body does not parse as JSON ends
\* the request at once (no further attempt) with an APIError whose
\* status_code is the response's status; the error is not a NetworkError.
C19_ParseFailureIsAPIError ==
    (response.status_code > 0 /\ response.status_code < 400 /\ ~response.parses)
    => /\ pc = "done"
       /\ attempt_number = Len(attempt_log) + 1
       /\ outcome.kind = "raise"
       /\ outcome.exc.cls = "APIError"
       /\ Attr(outcome.exc, "status_code") = PyInt(response.status_code)
       /\ Attr(outcome.exc, "response") = None
       /\ ~IsInstance(outcome.exc, "NetworkError")

\* A 204 response without a body arrived on the second attempt.
C19_Witness ==
    /\ pc = "done"
    /\ response.status_code = 204
    /\ ~response.parses
    /\ attempt_number = 2
    /\ outcome.kind = "raise"
    /\ outcome.exc.cls = "APIError"
    /\ Attr(outcome.exc, "status_code") = PyInt(204)

----------------------------------------------------------------------------
(* A client used as a context manager (SpecCtx) *)

MaxCloses == 2

ResourceNames == {"usage", "costs", "pricing", "analytics"}

\* What the body of a with block may raise.
BodyExceptions == {Exc("KeyError", NoItems), Exc("APIError", NoItems)}

\* Mutant: close() forgets the transport.
close_skipped == UNCHANGED <<closes, pool>>

\* CostOpsClient.close: self._http_client.close(), which closes the httpx
\* client and with it the connection pool.
close ==
    /\ closes' = closes + 1
    /\ pool' = "closed"

\* AsyncCostOpsClient.close: await self._http_client.close(), which awaits
\* self.client.aclose().
aclose ==
    /\ closes' = closes + 1
    /\ pool' = "closed"

\* __exit__ and __aexit__ are declared -> None and fall off the end.
exit_returns == None

\* The with statement: the exception of the body is raised again unless
\* __exit__ returned a true value.
with_raises(ret, exc) == IF Truthy(ret) THEN NoExc ELSE exc

InitCtx ==
    /\ client_kind \in {"sync", "async"}
    /\ scope = "none"
    /\ resources = {}
    /\ user_closes = 0
    /\ closes = 0
    /\ pool = "open"
    /\ body_exc = NoExc
    /\ propagated = NoExc
    /\ m_status = 0
    /\ m_body = None
    /\ m_request_id = None
    /\ m_result = NotApplied
    /\ HttpIdle
    /\ NoLimiter
    /\ AsyncIdle
    /\ AuxIdle
    /\ ResIdle
    /\ CfgIdle
    /\ AHttpIdle

\* The usage / costs / pricing / analytics properties: the resource object is
\* created on first access and kept.
Access(r) ==
    /\ scope \in {"none", "body"}
    /\ resources' = resources \cup {r}
    /\ UNCHANGED <<client_kind, scope, user_closes, closes, pool, body_exc, propagated>>
    /\ UNCHANGED <<asyncVars, resVars, cfgVars, ahttpVars, mapVars, auxVars, httpVars, rlVars>>

\* `with client:` calls __enter__, which returns self.
Enter ==
    /\ client_kind = "sync"
    /\ scope = "none"
    /\ scope' = "body"
    /\ UNCHANGED <<client_kind, resources, user_closes, closes, pool, body_exc, propagated>>
    /\ UNCHANGED <<asyncVars, resVars, cfgVars, ahttpVars, mapVars, auxVars, httpVars, rlVars>>

\* `async with client:` awaits __aenter__, which returns self.
AEnter ==
    /\ client_kind = "async"
    /\ scope = "none"
    /\ scope' = "body"
    /\ UNCHANGED <<client_kind, resources, user_closes, closes, pool, body_exc, propagated>>
    /\ UNCHANGED <<asyncVars, resVars, cfgVars, ahttpVars, mapVars, auxVars, httpVars, rlVars>>

\* The body of the with block runs to its end.
BodyReturns ==
    /\ scope = "body"
    /\ scope' = "finished"
    /\ UNCHANGED <<client_kind, resources, user_closes, closes, pool, body_exc, propagated>>
    /\ UNCHANGED <<asyncVars, resVars, cfgVars, ahttpVars, mapVars, auxVars, httpVars, rlVars>>

\* The body of the with block raises.
BodyRaises(e) ==
    /\ scope = "body"
    /\ scope' = "raised"
    /\ body_exc' = e
    /\ UNCHANGED <<client_kind, resources, user_closes, closes, pool, propagated>>
    /\ UNCHANGED <<asyncVars, resVars, cfgVars, ahttpVars, mapVars, auxVars, httpVars, rlVars>>

\* The scope exits: __exit__(*args) calls self.close() and returns None.
Exit ==
    /\ client_kind = "sync"
    /\ scope \in {"finished", "raised"}
    /\ close
    /\ scope' = "exited"
    /\ propagated' = with_raises(exit_returns, body_exc)
    /\ UNCHANGED <<client_kind, resources, user_closes, body_exc>>
    /\ UNCHANGED <<asyncVars, resVars, cfgVars, ahttpVars, mapVars, auxVars, httpVars, rlVars>>

\* The scope exits: __aexit__(*args) awaits self.close() and returns None.
AExit ==
    /\ client_kind = "async"
    /\ scope \in {"finished", "raised"}
    /\ aclose
    /\ scope' = "exited"
    /\ propagated' = with_raises(exit_returns, body_exc)
    /\ UNCHANGED <<client_kind, resources, user_closes, body_exc>>
    /\ UNCHANGED <<asyncVars, resVars, cfgVars, ahttpVars, mapVars, auxVars, httpVars, rlVars>>

\* The caller calls client.close() itself, outside or inside a with block.
Close ==
    /\ client_kind = "sync"
    /\ scope \in {"none", "body", "exited"}
    /\ user_closes < MaxCloses
    /\ user_closes' = user_closes + 1
    /\ close
    /\ UNCHANGED <<client_kind, scope, resources, body_exc, propagated>>
    /\ UNCHANGED <<asyncVars, resVars, cfgVars, ahttpVars, mapVars, auxVars, httpVars, rlVars>>

\* The caller awaits client.close() itself.
AClose ==
    /\ client_kind = "async"
    /\ scope \in {"none", "body", "exited"}
    /\ user_closes < MaxCloses
    /\ user_closes' = user_closes + 1
    /\ aclose
    /\ UNCHANGED <<client_kind, scope, resources, body_exc, propagated>>
    /\ UNCHANGED <<asyncVars, resVars, cfgVars, ahttpVars, mapVars, auxVars, httpVars, rlVars>>

NextCtx ==
    \/ \E r \in ResourceNames : Access(r)
    \/ Enter
    \/ AEnter
    \/ BodyReturns
    \/ \E e \in BodyExceptions : BodyRaises(e)
    \/ Exit
    \/ AExit
    \/ Close
    \/ AClose

SpecCtx == InitCtx /\ [][NextCtx]_vars

\* C20: every exit of a with / async with scope, normal or by an exception of
\* the body, and every explicit close() on the client calls close() on the
\* transport once, after which the connection pool is closed; after the scope
\* has exited the caller has received exactly the exception the body raised
\* (none if it raised none).
C20_ScopeExitCloses ==
    /\ closes = user_closes + (IF scope = "exited" THEN 1 ELSE 0)
    /\ (user_closes > 0 \/ scope = "exited") => pool = "closed"
    /\ scope = "exited" => propagated = body_exc
    /\ scope # "exited" => propagated = NoExc

\* An async with scope whose body raised has exited: the transport was closed
\* once and the caller received the exception.
C20_Witness ==
    /\ client_kind = "async"
    /\ scope = "exited"
    /\ body_exc = Exc("KeyError", NoItems)
    /\ propagated = body_exc
    /\ user_closes = 0
    /\ closes = 1
    /\ pool = "closed"

----------------------------------------------------------------------------
(* The response envelope (SpecRes) *)

\* The operations that return a list.
ListOps == {"usage.get_history", "pricing.list"}

\* What an operation returns for a given payload.
Validated(op, payload) ==
    CASE op = "usage.get_history" -> Return(payload)
      [] op = "pricing.list" -> validate_each(ResponseModel(op), payload)
      [] OTHER -> model_validate(ResponseModel(op), payload)

\* C21 as stated: every resource operation takes the value of `data` as the
\* payload when the parsed response has a data key and the whole response
\* otherwise.
C21_UniformUnwrap ==
    [][(res_pc = "request" /\ res_pc' = "done"
        /\ outcome.kind = "return" /\ outcome.val.t = "dict")
       => res_outcome' = Validated(res_op, Get(outcome.val, "data", outcome.val))]_vars

\* C21 amended: the payload is the value of `data` when the parsed response
\* has a data key; otherwise it is the whole response for usage.submit,
\* costs.get, pricing.create, pricing.get and analytics.get, and the empty
\* list for usage.get_history and pricing.list.
C21_UnwrapByKind ==
    [][(res_pc = "request" /\ res_pc' = "done"
        /\ outcome.kind = "return" /\ outcome.val.t = "dict")
       => res_outcome' =
            Validated(res_op,
                      Get(outcome.val, "data",
                          IF res_op \in ListOps THEN PyArray(<<>>) ELSE outcome.val))]_vars

\* Both cases have happened: a list operation got a response without a data
\* key and returned the empty list, or a single-object operation got a bare
\* payload and returned it validated.
C21_Witness ==
    /\ res_pc = "done"
    /\ outcome.kind = "return"
    /\ outcome.val.t = "dict"
    /\ "data" \notin DOMAIN outcome.val.v
    /\ DOMAIN outcome.val.v # {}
    /\ \/ res_op = "usage.get_history" /\ res_outcome = Return(PyArray(<<>>))
       \/ res_op = "costs.get" /\ res_outcome.kind = "return"
                               /\ res_outcome.val.v = outcome.val.v

----------------------------------------------------------------------------
(* Threads sharing one RateLimiter (SpecThreads) *)

MaxThreadRequests == 2   \* max_requests ranges over 1..MaxThreadRequests
MaxThreadWindow == 2     \* time_window ranges over 1..MaxThreadWindow ticks
MaxThreadTime == 4       \* the clock is followed up to MaxThreadTime ticks

\* RateLimiter.__init__: a full bucket; no thread has called acquire().
InitThreads ==
    /\ rl_max_requests \in 1..MaxThreadRequests
    /\ rl_time_window \in 1..MaxThreadWindow
    /\ tokens = rl_max_requests * rl_time_window
    /\ now = 0
    /\ last_update = now
    /\ rl_pc = "idle"
    /\ acquired = 0
    /\ slept = 0
    /\ full_at = 0
    /\ since_full = 0
    /\ empty_at = -1
    /\ last_wait = -1
    /\ m_status = 0
    /\ m_body = None
    /\ m_request_id = None
    /\ m_result = NotApplied
    /\ HttpIdle
    /\ ExtIdle

\* A thread calls acquire(). The call overlaps when another thread is inside.
ThCall(t) ==
    /\ th_pc[t] = "idle"
    /\ th_pc' = [th_pc EXCEPT ![t] = "refill"]
    /\ overlapped' = (overlapped \/ \E u \in Threads \ {t} : th_pc[u] # "idle")
    /\ UNCHANGED <<th_wake, rlVars, asyncVars, resVars, cfgVars, ahttpVars, ctxVars,
                   mapVars, httpVars, moreVars>>

\* self._refill() at the top of the loop
ThRefill(t) ==
    /\ th_pc[t] = "refill"
    /\ tokens' = refill(tokens, now - last_update)
    /\ last_update' = now
    /\ th_pc' = [th_pc EXCEPT ![t] = "test"]
    /\ UNCHANGED <<th_wake, overlapped, rl_max_requests, rl_time_window, now, rl_pc,
                   acquired, slept, full_at, since_full, empty_at, last_wait>>
    /\ UNCHANGED <<asyncVars, resVars, cfgVars, ahttpVars, ctxVars, mapVars, httpVars, moreVars>>

\* `if self.tokens >= 1.0:`, else time.sleep(0.1) is entered
ThTest(t) ==
    /\ th_pc[t] = "test"
    /\ IF has_token(tokens)
       THEN th_pc' = [th_pc EXCEPT ![t] = "dec"] /\ th_wake' = th_wake
       ELSE th_pc' = [th_pc EXCEPT ![t] = "sleep"]
            /\ th_wake' = [th_wake EXCEPT ![t] = now + 1]
    /\ UNCHANGED <<overlapped, rlVars, asyncVars, resVars, cfgVars, ahttpVars, ctxVars,
                   mapVars, httpVars, moreVars>>

\* `self.tokens -= 1.0; return`
ThDec(t) ==
    /\ th_pc[t] = "dec"
    /\ tokens' = consume(tokens)
    /\ acquired' = acquired + 1
    /\ th_pc' = [th_pc EXCEPT ![t] = "idle"]
    /\ UNCHANGED <<th_wake, overlapped, rl_max_requests, rl_time_window, last_update, now,
                   rl_pc, slept, full_at, since_full, empty_at, last_wait>>
    /\ UNCHANGED <<asyncVars, resVars, cfgVars, ahttpVars, ctxVars, mapVars, httpVars, moreVars>>

\* time.sleep(0.1) returns in a thread, no earlier than a tick after it began.
ThWake(t) ==
    /\ th_pc[t] = "sleep"
    /\ now >= th_wake[t]
    /\ th_pc' = [th_pc EXCEPT ![t] = "refill"]
    /\ th_wake' = [th_wake EXCEPT ![t] = 0]
    /\ UNCHANGED <<overlapped, rlVars, asyncVars, resVars, cfgVars, ahttpVars,
                   ctxVars, mapVars, httpVars, moreVars>>

\* The clock advances.
Tick ==
    /\ now < MaxThreadTime
    /\ now' = now + 1
    /\ UNCHANGED <<thVars, rl_max_requests, rl_time_window, tokens, last_update, rl_pc,
                   acquired, slept, full_at, since_full, empty_at, last_wait>>
    /\ UNCHANGED <<asyncVars, resVars, cfgVars, ahttpVars, ctxVars, mapVars, httpVars, moreVars>>

NextThreads ==
    \/ \E t \in Threads : ThCall(t)
    \/ \E t \in Threads : ThRefill(t)
    \/ \E t \in Threads : ThTest(t)
    \/ \E t \in Threads : ThDec(t)
    \/ \E t \in Threads : ThWake(t)
    \/ Tick

SpecThreads == InitThreads /\ [][NextThreads]_vars

\* C22: the limiter is correct only under sequential access. As long as no
\* acquire() call has overlapped another, the token count is never negative
\* and a thread about to decrement still has its token; the witness is the
\* state that interleaved threads reach, where two acquires were admitted on a
\* single token and the count is negative.
C22_SequentialIsSafe ==
    ~overlapped =>
        /\ tokens >= 0
        /\ \A t \in Threads : th_pc[t] = "dec" => has_token(tokens)

\* max_requests = 1 and no time has passed, yet two acquires have returned
\* and the token count is below zero.
C22_Witness ==
    /\ overlapped
    /\ rl_max_requests = 1
    /\ now = 0
    /\ acquired = 2
    /\ tokens < 0

----------------------------------------------------------------------------
(* The limiter inside request() (SpecReq) *)

\* BaseHTTPClient.__init__: a client built with a rate limit, as in InitRes,
\* or without one (rate_limit is None, the default): rl_max_requests = 0 and
\* no bucket.
InitReq ==
    /\ m_status = 0
    /\ m_body = None
    /\ m_request_id = None
    /\ m_result = NotApplied
    /\ max_retries \in {0, 1}
    /\ timeout = 30
    /\ pc = "idle"
    /\ attempt_number = 0
    /\ attempt_log = <<>>
    /\ response = NoResponse
    /\ outcome = Pending
    /\ rl_max_requests \in {0, 1, 2}
    /\ rl_time_window = IF rl_max_requests = 0 THEN 0 ELSE 1
    /\ tokens = rl_max_requests * rl_time_window
    /\ now = 0
    /\ last_update = now
    /\ rl_pc = "idle"
    /\ acquired = 0
    /\ slept = 0
    /\ full_at = 0
    /\ since_full = 0
    /\ empty_at = -1
    /\ last_wait = -1
    /\ ExtIdle

SpecReq == InitReq /\ [][NextRes]_vars

\* C23: each request() call on a transport with a rate limiter consumes
\* exactly one token, and does so before its first HTTP attempt: the number
\* of acquires that have returned equals the number of request() calls made,
\* less the one still waiting in acquire(); retries and errors change
\* neither, and outside acquire() the token count never moves. A transport
\* without a rate limiter never enters acquire(), never sleeps and counts
\* nothing.
C23_OneTokenPerRequest ==
    /\ [](/\ rl_max_requests # 0 =>
                /\ acquired = req_entered -
                              (IF pc = "acquire" /\ rl_pc # "idle" THEN 1 ELSE 0)
                /\ pc = "acquire" => attempt_number = 0 /\ attempt_log = <<>>
                /\ attempt_number >= 1 => acquired = req_entered
          /\ rl_max_requests = 0 =>
                /\ pc # "acquire"
                /\ rl_pc = "idle"
                /\ acquired = 0
                /\ tokens = 0
                /\ slept = 0)
    /\ [][(tokens' # tokens \/ acquired' # acquired) =>
            (pc = "acquire" /\ pc' = "acquire" /\ attempt_number = 0)]_vars

\* A request on a limited transport was retried and ended in an error, and a
\* second request followed: two tokens were taken for three or more attempts.
C23_Witness ==
    /\ rl_max_requests # 0
    /\ max_retries = 1
    /\ req_entered = 2
    /\ acquired = 2
    /\ pc = "done"
    /\ attempt_number = 2
    /\ outcome.kind = "raise"

----------------------------------------------------------------------------
(* Further properties of the RateLimiter (SpecRL) *)

\* C24: under sequential use, the acquire() calls that have returned by time
\* t never exceed max_requests + t * max_requests / time_window (both sides
\* multiplied by time_window).
C24_RateBound ==
    acquired * rl_time_window
        <= rl_max_requests * rl_time_window + now * rl_max_requests

\* The bound is met with equality after the initial burst and a wait.
C24_Witness ==
    /\ acquired > rl_max_requests
    /\ slept > 0
    /\ now > 0
    /\ acquired * rl_time_window
        = rl_max_requests * rl_time_window + now * rl_max_requests

\* C25: under sequential use and a non-decreasing clock the token count stays
\* within 0 .. max_requests (scaled by time_window) and last_update never
\* decreases.
C25_TokenRange ==
    /\ [](tokens >= 0 /\ tokens <= rl_max_requests * rl_time_window)
    /\ [][last_update' >= last_update]_vars

\* The bucket was emptied and has since been refilled to a fraction of a
\* token by a poll that went to sleep.
C25_Witness ==
    /\ rl_pc = "sleep"
    /\ tokens > 0
    /\ tokens < rl_time_window
    /\ last_update > 0
    /\ acquired >= rl_max_requests

----------------------------------------------------------------------------
(* http_client.py: RateLimiter._refill in floating point (SpecFp) *)

\* tokens, last_update and time.time() are floats. The arithmetic is followed
\* in binary floating point with a significand of MantissaBits bits, rounding
\* to nearest with ties to even, on integers that count 1/Unit of a token or
\* of a second.
MantissaBits == 6
MaxFpRequests == 3       \* max_requests ranges over 1..MaxFpRequests
MaxFpWindow == 3         \* time_window ranges over 1..MaxFpWindow seconds
MaxFpTime == 6           \* the clock is followed for MaxFpTime ticks

\* A tick of the clock, and one token (or one second). Every non-zero value
\* the refill computes is at least Pow2(MantissaBits), so none falls below the
\* precision of the format.
FpTick == Pow2(MantissaBits + 2)
Unit == 4 * FpTick

RECURSIVE Spacing(_)
\* The distance between neighbouring floats at magnitude n.
Spacing(n) == IF n < Pow2(MantissaBits) THEN 1 ELSE 2 * Spacing(n \div 2)

\* The float nearest to num / den.
RoundRatio(num, den) ==
    LET s == Spacing(num \div den)
        d == den * s
        q == num \div d
        r == num % d
    IN  s * (IF 2 * r < d THEN q
             ELSE IF 2 * r > d THEN q + 1
             ELSE IF q % 2 = 0 THEN q ELSE q + 1)

\* Mutant: _refill forgets `self.last_update = now`.
fp_refill_stale(tok, last, t) ==
    [tokens |-> Min(fp_max_requests * Unit,
                    RoundRatio(tok + RoundRatio(RoundRatio((t - last) * fp_max_requests, 1),
                                                fp_time_window), 1)),
     last_update |-> last]

\* _refill at clock reading t: elapsed = now - last_update;
\* tokens = min(max_requests, tokens + (elapsed * max_requests / time_window));
\* last_update = now. Each operation rounds its result.
fp_refill(tok, last, t) ==
    LET elapsed == RoundRatio(t - last, 1)
        product == RoundRatio(elapsed * fp_max_requests, 1)
        quotient == RoundRatio(product, fp_time_window)
        sum == RoundRatio(tok + quotient, 1)
    IN  [tokens |-> Min(fp_max_requests * Unit, sum), last_update |-> t]

\* A limiter at time t0 = 0 holding some number of quarter tokens.
InitFp ==
    /\ fp_max_requests \in 1..MaxFpRequests
    /\ fp_time_window \in 1..MaxFpWindow
    /\ fp_now = 0
    /\ fp_tokens0 \in {k * FpTick : k \in 0..(4 * fp_max_requests)}
    /\ fp_last_update0 = 0
    /\ fp_tokens = fp_tokens0
    /\ fp_last_update = fp_last_update0
    /\ fp_polls = 0
    /\ IdleBut("fp")

\* The clock advances by a tick.
FpElapse ==
    /\ fp_now < MaxFpTime * FpTick
    /\ fp_now' = fp_now + FpTick
    /\ UNCHANGED <<fp_max_requests, fp_time_window, fp_tokens, fp_last_update,
                   fp_tokens0, fp_last_update0, fp_polls>>
    /\ UNCHANGED <<mapVars, httpVars, rlVars, asyncVars, resVars, cfgVars, ahttpVars,
                   ctxVars, thVars, moreButFp>>

\* _refill() is called on the limiter: at t1, and again at t2.
FpRefill ==
    /\ fp_polls < 2
    /\ LET r == fp_refill(fp_tokens, fp_last_update, fp_now)
       IN  fp_tokens' = r.tokens /\ fp_last_update' = r.last_update
    /\ fp_polls' = fp_polls + 1
    /\ UNCHANGED <<fp_max_requests, fp_time_window, fp_now, fp_tokens0, fp_last_update0>>
    /\ UNCHANGED <<mapVars, httpVars, rlVars, asyncVars, resVars, cfgVars, ahttpVars,
                   ctxVars, thVars, moreButFp>>

NextFp == FpElapse \/ FpRefill

SpecFp == InitFp /\ [][NextFp]_vars

\* What a single refill at the present time leaves in the limiter of t0.
SingleRefill == fp_refill(fp_tokens0, fp_last_update0, fp_now).tokens

\* C26 as stated: refilling at t1 and then at t2 leaves the same token count
\* as a single refill at t2, and so a token is available after the two
\* refills exactly when it is after the single one.
C26_RefillComposes ==
    [][(fp_polls = 1 /\ fp_polls' = 2)
       => /\ fp_tokens' = SingleRefill
          /\ (fp_tokens' >= Unit) <=> (SingleRefill >= Unit)]_vars

\* C26 amended: the two counts agree up to floating-point rounding, their
\* difference being at most 16 units of roundoff (2^-MantissaBits) relative
\* to the larger.
C26_RefillComposesRounded ==
    [][(fp_polls = 1 /\ fp_polls' = 2)
       => LET a == fp_tokens'
              b == SingleRefill
          IN  /\ (a - b) * Pow2(MantissaBits) <= 16 * b
              /\ (b - a) * Pow2(MantissaBits) <= 16 * a]_vars

\* Two refills at different times after t0 have been made and tokens were
\* credited.
C26_Witness ==
    /\ fp_polls = 2
    /\ fp_last_update = fp_now
    /\ fp_now >= 2 * FpTick
    /\ fp_tokens > fp_tokens0
    /\ fp_tokens < fp_max_requests * Unit

----------------------------------------------------------------------------
(* The RateLimiter on a wall clock that can be set back (SpecClock) *)

MaxClockRequests == 2    \* max_requests ranges over 1..MaxClockRequests
MaxClockWindow == 2      \* time_window ranges over 1..MaxClockWindow ticks
MaxClockBacks == 1       \* times the clock is set back

\* RateLimiter.__init__: a full bucket, last_update = time.time()
InitClock ==
    /\ rl_max_requests \in 1..MaxClockRequests
    /\ rl_time_window \in 1..MaxClockWindow
    /\ tokens = rl_max_requests * rl_time_window
    /\ now = 0
    /\ last_update = now
    /\ rl_pc = "idle"
    /\ acquired = 0
    /\ slept = 0
    /\ full_at = 0
    /\ since_full = 0
    /\ empty_at = -1
    /\ last_wait = -1
    /\ m_status = 0
    /\ m_body = None
    /\ m_request_id = None
    /\ m_result = NotApplied
    /\ HttpIdle
    /\ ExtIdle

\* time.time() is the wall clock: between two readings it may have been set
\* back (NTP, a manual change).
ClockBack ==
    /\ clock_backs < MaxClockBacks
    /\ clock_backs' = clock_backs + 1
    /\ \E t \in 0..(now - 1) : now' = t
    /\ UNCHANGED <<asyncVars, resVars, cfgVars, ahttpVars, ctxVars, thVars, moreButClk,
                   mapVars, httpVars, rl_max_requests, rl_time_window, tokens,
                   last_update, rl_pc, acquired, slept, full_at, since_full,
                   empty_at, last_wait>>

NextClock ==
    \/ AcquireCall
    \/ Poll
    \/ Sleep
    \/ Elapse
    \/ ClockBack

SpecClock == InitClock /\ [][NextClock]_vars

\* C27: whatever the clock readings, a step back included, the refill neither
\* reduces the token count nor makes it negative: a poll that only refills
\* leaves at least the tokens it found, and tokens stays within
\* 0 .. max_requests.
C27_ClockStepSafe ==
    /\ [](tokens >= 0 /\ tokens <= rl_max_requests * rl_time_window)
    /\ [][(rl_pc = "loop" /\ rl_pc' = "sleep") => tokens' >= tokens]_vars

----------------------------------------------------------------------------
(* The waits between the attempts of one request() (SpecBackoff) *)

MaxBackoffFactor == 3    \* backoff_factor ranges over 1..MaxBackoffFactor seconds
MaxMaxBackoff == 5       \* max_backoff ranges over 1..MaxMaxBackoff seconds

\* The outcomes of an attempt followed here: a timeout, a network error, a
\* success and an error response.
BoOutcomes ==
    {[ok |-> FALSE, resp |-> NoResponse, exc |-> Exc(c, NoItems)] :
        c \in {"httpx.ReadTimeout", "httpx.ConnectError"}}
    \cup {[ok |-> TRUE, exc |-> NoExc,
           resp |-> [status_code |-> st, parses |-> TRUE, json |-> PyDict(NoItems),
                     request_id |-> None]] : st \in {200, 404}}

\* A transport built from a RetryConfig that passed __post_init__:
\* max_retries >= 0, backoff_factor > 0, max_backoff > 0.
InitBackoff ==
    /\ max_retries \in 0..MaxRetries
    /\ backoff_factor \in 1..MaxBackoffFactor
    /\ max_backoff \in 1..MaxMaxBackoff
    /\ waits = <<>>
    /\ timeout = 30
    /\ pc = "idle"
    /\ attempt_number = 0
    /\ attempt_log = <<>>
    /\ response = NoResponse
    /\ outcome = Pending
    /\ m_status = 0
    /\ m_body = None
    /\ m_request_id = None
    /\ m_result = NotApplied
    /\ NoLimiter
    /\ AsyncIdle
    /\ ResIdle
    /\ CfgIdle
    /\ AHttpIdle
    /\ CtxIdle
    /\ ThIdle
    /\ MoreIdleBut("bo")

\* request() is called.
BoRequest ==
    /\ pc \in {"idle", "done"}
    /\ pc' = "attempt"
    /\ attempt_number' = 0
    /\ attempt_log' = <<>>
    /\ response' = NoResponse
    /\ outcome' = Pending
    /\ waits' = <<>>
    /\ UNCHANGED <<backoff_factor, max_backoff, max_retries, timeout>>
    /\ UNCHANGED <<mapVars, rlVars, asyncVars, resVars, cfgVars, ahttpVars, ctxVars,
                   thVars, moreButBo>>

\* One attempt.
BoAttempt ==
    /\ AttemptWith(BoOutcomes)
    /\ UNCHANGED <<rlVars, asyncVars, resVars, cfgVars, ahttpVars, ctxVars>>

\* The retry wrapper sleeps wait_exponential(attempt_number) after the failed
\* attempt, then makes the next one.
BoBackoff ==
    /\ pc = "wait"
    /\ pc' = "attempt"
    /\ waits' = Append(waits, wait_exponential(attempt_number))
    /\ UNCHANGED <<backoff_factor, max_backoff, max_retries, timeout, attempt_number,
                   attempt_log, response, outcome>>
    /\ UNCHANGED <<mapVars, rlVars, asyncVars, resVars, cfgVars, ahttpVars, ctxVars,
                   thVars, moreButBo>>

NextBackoff == BoRequest \/ BoAttempt \/ BoBackoff

SpecBackoff == InitBackoff /\ [][NextBackoff]_vars

\* C28 as stated: the wait before retry attempt k+1 is
\* min(backoff_factor * 2^(k-1), max_backoff); the first wait equals
\* backoff_factor, the waits never decrease and none exceeds max_backoff.
C28_BackoffSchedule ==
    /\ Len(waits) <= max_retries
    /\ \A k \in 1..Len(waits) :
        /\ waits[k] = Min(backoff_factor * Pow2(k - 1), max_backoff)
        /\ waits[k] <= max_backoff
        /\ k > 1 => waits[k] >= waits[k - 1]
    /\ Len(waits) >= 1 => waits[1] = backoff_factor

\* C28 amended: the same, with the first wait equal to backoff_factor when
\* backoff_factor <= max_backoff and to max_backoff otherwise.
C28_BackoffScheduleCapped ==
    /\ Len(waits) <= max_retries
    /\ \A k \in 1..Len(waits) :
        /\ waits[k] = Min(backoff_factor * Pow2(k - 1), max_backoff)
        /\ waits[k] <= max_backoff
        /\ k > 1 => waits[k] >= waits[k - 1]
    /\ Len(waits) >= 1 =>
        waits[1] = IF backoff_factor <= max_backoff THEN backoff_factor ELSE max_backoff

\* Two retries were made: the first wait was backoff_factor, the second was
\* cut by max_backoff.
C28_Witness ==
    /\ Len(waits) = 2
    /\ attempt_number = 3
    /\ waits[1] = backoff_factor
    /\ waits[2] = max_backoff
    /\ waits[2] < 2 * backoff_factor
    /\ waits[2] > waits[1]

----------------------------------------------------------------------------
(* client.py: the objects a facade client owns (SpecFacade) *)

\* Mutant: the property builds a new resource on every access.
lazy_uncached(current, fresh) == fresh

\* `if self._usage is None: self._usage = UsageResource(self._http_client)`
\* followed by `return self._usage`: the id the attribute holds afterwards,
\* given the id a newly built object would get.
lazy(current, fresh) == IF current = 0 THEN fresh ELSE current

\* CostOpsClient.__init__ / AsyncCostOpsClient.__init__: one transport is
\* built (object 1) and the four resource attributes are None.
InitFacade ==
    /\ fac_kind \in {"sync", "async"}
    /\ fac_http_client = 1
    /\ transports = 1
    /\ next_id = 2
    /\ fac_resources = [r \in ResourceNames |-> 0]
    /\ obj_client = <<>>
    /\ returned = [name |-> "none", id |-> 0]
    /\ IdleBut("fac")

\* The usage / costs / pricing / analytics property of a CostOpsClient.
FacAccess(r) ==
    /\ fac_kind = "sync"
    /\ LET id == lazy(fac_resources[r], next_id)
       IN  /\ fac_resources' = [fac_resources EXCEPT ![r] = id]
           /\ returned' = [name |-> r, id |-> id]
           /\ IF id = next_id
              THEN /\ next_id' = next_id + 1
                   /\ obj_client' = Append(obj_client, fac_http_client)
              ELSE UNCHANGED <<next_id, obj_client>>
    /\ UNCHANGED <<fac_kind, fac_http_client, transports>>
    /\ UNCHANGED <<mapVars, httpVars, rlVars, asyncVars, resVars, cfgVars, ahttpVars,
                   ctxVars, thVars, moreButFac>>

\* The same property of an AsyncCostOpsClient.
FacAccessAsync(r) ==
    /\ fac_kind = "async"
    /\ LET id == lazy(fac_resources[r], next_id)
       IN  /\ fac_resources' = [fac_resources EXCEPT ![r] = id]
           /\ returned' = [name |-> r, id |-> id]
           /\ IF id = next_id
              THEN /\ next_id' = next_id + 1
                   /\ obj_client' = Append(obj_client, fac_http_client)
              ELSE UNCHANGED <<next_id, obj_client>>
    /\ UNCHANGED <<fac_kind, fac_http_client, transports>>
    /\ UNCHANGED <<mapVars, httpVars, rlVars, asyncVars, resVars, cfgVars, ahttpVars,
                   ctxVars, thVars, moreButFac>>

NextFacade ==
    \/ \E r \in ResourceNames : FacAccess(r)
    \/ \E r \in ResourceNames : FacAccessAsync(r)

SpecFacade == InitFacade /\ [][NextFacade]_vars

\* C29: the facade holds the one transport built by its constructor for its
\* whole lifetime; a resource property builds its resource on first access
\* and returns that same object on every later access; distinct properties
\* hold distinct objects, and every resource built refers to the facade's
\* transport (and so to its one rate limiter).
C29_OneTransportLazyResources ==
    /\ [](/\ transports = 1
          /\ fac_http_client = 1
          /\ \A r \in ResourceNames :
                fac_resources[r] # 0 =>
                    /\ fac_resources[r] - 1 \in DOMAIN obj_client
                    /\ obj_client[fac_resources[r] - 1] = fac_http_client
          /\ \A r, q \in ResourceNames :
                (r # q /\ fac_resources[r] # 0) => fac_resources[r] # fac_resources[q]
          /\ returned.name # "none" => returned.id = fac_resources[returned.name])
    /\ [][\A r \in ResourceNames :
            fac_resources[r] # 0 => fac_resources'[r] = fac_resources[r]]_vars

\* All four resources exist, built in the order costs, usage, analytics,
\* pricing, and usage has just been returned again.
C29_Witness ==
    /\ fac_resources = [usage |-> 3, costs |-> 2, pricing |-> 5, analytics |-> 4]
    /\ returned = [name |-> "usage", id |-> 3]
    /\ obj_client = <<1, 1, 1, 1>>
    /\ next_id = 6

----------------------------------------------------------------------------
(* http_client.py: the URL of a request (SpecUrl) *)

\* Longest path argument and longest path part of a base_url argument tried.
MaxPathLen == 3
MaxBasePathLen == 2

\* A string is the sequence of its characters. Of the characters urljoin
\* treats specially, "/" and "." are in the alphabet; ":", "?", "#" and ";"
\* are not. An https URL is written as its netloc and its path: it reads
\* "https://" + netloc + path, the path empty or starting with "/".
UrlChars == {"a", "/", "."}
Strings(n) == UNION {[1..k -> UrlChars] : k \in 0..n}
Url(netloc, path) == [netloc |-> netloc, path |-> path]

\* The base_url arguments: https://h followed by nothing or by a path.
BaseUrlArgs == {Url(<<"h">>, p) : p \in {q \in Strings(MaxBasePathLen) : q = <<>> \/ q[1] = "/"}}

\* str.startswith("/")
startswith_slash(s) == s # <<>> /\ s[1] = "/"

RECURSIVE split(_)
\* str.split("/")
split(s) ==
    IF \A i \in 1..Len(s) : s[i] # "/"
    THEN <<s>>
    ELSE LET i == CHOOSE j \in 1..Len(s) : s[j] = "/" /\ \A k \in 1..(j - 1) : s[k] # "/"
         IN  <<SubSeq(s, 1, i - 1)>> \o split(SubSeq(s, i + 1, Len(s)))

RECURSIVE join(_)
\* "/".join(segments)
join(segments) ==
    IF segments = <<>> THEN <<>>
    ELSE IF Len(segments) = 1 THEN segments[1]
    ELSE segments[1] \o <<"/">> \o join(Tail(segments))

RECURSIVE remove_dot_segments(_, _)
\* The loop of urljoin over the segments: ".." drops the last segment kept
\* (if any), "." is skipped, every other segment is kept.
remove_dot_segments(segments, resolved_path) ==
    IF segments = <<>> THEN resolved_path
    ELSE LET seg == Head(segments)
         IN  remove_dot_segments(Tail(segments),
                IF seg = <<".", ".">>
                THEN (IF resolved_path = <<>> THEN <<>>
                      ELSE SubSeq(resolved_path, 1, Len(resolved_path) - 1))
                ELSE IF seg = <<".">> THEN resolved_path
                ELSE Append(resolved_path, seg))

\* urlsplit of a reference that starts with "/": after "//" the netloc runs
\* to the next "/", the rest is the path.
urlsplit(url) ==
    IF Len(url) >= 2 /\ url[2] = "/"
    THEN LET rest == SubSeq(url, 3, Len(url))
             parts == split(rest)
         IN  Url(parts[1], SubSeq(rest, Len(parts[1]) + 1, Len(rest)))
    ELSE Url(<<>>, url)

\* urlunparse: with a netloc, a non-empty path gets a leading "/" if it has none.
urlunparse(netloc, path) ==
    Url(netloc, IF path # <<>> /\ ~startswith_slash(path) THEN <<"/">> \o path ELSE path)

\* urllib.parse.urljoin(base, url) for an https base and a reference that
\* starts with "/".
urljoin(base, url) ==
    LET ref == urlsplit(url)
    IN  IF ref.netloc # <<>> THEN urlunparse(ref.netloc, ref.path)
        ELSE IF ref.path = <<>> THEN urlunparse(base.netloc, base.path)
        ELSE LET segments == split(ref.path)
                 last == segments[Len(segments)]
                 resolved == remove_dot_segments(segments, <<>>)
                 resolved_path == IF last \in {<<".">>, <<".", ".">>}
                                  THEN Append(resolved, <<>>) ELSE resolved
                 joined == join(resolved_path)
             IN  urlunparse(base.netloc, IF joined = <<>> THEN <<"/">> ELSE joined)

\* BaseHTTPClient._get_url
_get_url(path) ==
    urljoin(url_base, IF ~startswith_slash(path) THEN <<"/">> \o path ELSE path)

\* A transport whose configuration was built from a base_url argument:
\* ClientConfig.__post_init__ has stripped the trailing slashes.
InitUrl ==
    /\ \E b \in BaseUrlArgs : url_base = Url(b.netloc, rstrip(b.path))
    /\ url_called = FALSE
    /\ url_path = <<>>
    /\ url_result = Url(<<>>, <<>>)
    /\ IdleBut("url")

\* request() computes the URL of the path it was given.
GetUrl ==
    /\ \E path \in Strings(MaxPathLen) :
        /\ url_path' = path
        /\ url_result' = _get_url(path)
    /\ url_called' = TRUE
    /\ UNCHANGED url_base
    /\ UNCHANGED <<mapVars, httpVars, rlVars, asyncVars, resVars, cfgVars, ahttpVars,
                   ctxVars, thVars, moreButUrl>>

NextUrl == GetUrl

SpecUrl == InitUrl /\ [][NextUrl]_vars

RECURSIVE lstrip(_)
\* The string without its leading slashes.
lstrip(s) == IF startswith_slash(s) THEN lstrip(Tail(s)) ELSE s

\* C30: the URL requested is the configured base_url followed by the path
\* with exactly one leading slash, so the host and the path prefix of the
\* base_url are kept.
C30_UrlIsBasePlusPath ==
    url_called =>
        url_result = Url(url_base.netloc, url_base.path \o <<"/">> \o lstrip(url_path))

====
